---- MODULE Spec2Model ----
(***************************************************************************)
(* Dispatch and transport engine of the LLM gateway (api/gateway.ts,       *)
(* api/_shared/middleware.ts, api/_shared/utils.ts, api/_shared/errors.ts, *)
(* api/_shared/config.ts).                                                 *)
(*                                                                         *)
(* One behaviour follows one inbound request through handler():            *)
(* early returns, the routing decision, forwardToBackground with its       *)
(* degradation to handleInEdge, and fetchWithRetry's attempt loop.  Every  *)
(* action is the code that runs between two awaits.                        *)
(*                                                                         *)
(* Conventions.  An optional field (`x?: T`) is <<>> when absent and <<v>> *)
(* when present.  A pathname is the sequence of its non-empty segments and *)
(* String.includes on a pathname is a contiguous run of segments.  An      *)
(* error message is the set of the looked-for substrings it contains.      *)
(***************************************************************************)
EXTENDS Integers, Sequences, FiniteSets, TLC

(* ------------------------------ bounds -------------------------------- *)

\* largest maxRetries a provider profile declares in the model
MaxRetriesBound == 3

\* Math.random() is drawn from the grid {k / JitterSteps : 0 <= k < JitterSteps}
JitterSteps == 4

\* largest attempt index the backoff specification computes a delay for
MaxAttemptIndex == 24

\* largest size limit the governor specification draws for a stream
MaxLimit == 4

\* how many chunks the source of a response body delivers at most
MaxChunks == 3

\* largest byteLength of one chunk
MaxChunkBytes == 3

(* ------------------------- program constants -------------------------- *)

MAX_RESPONSE_SIZE == 6291456
LARGE_BODY_THRESHOLD == 1048576
OPENAI_MAX_RESPONSE_SIZE == 10485760
DEFAULT_TIMEOUT == 20000
EDGE_TIMEOUT_CEILING == 20000
OPENAI_TIMEOUT == 120000
FORWARD_TIMEOUT == 20000

STREAMING_PATHS ==
  { <<"v1", "chat", "completions">>, <<"v1", "completions">>, <<"v1", "messages">>,
    <<"v1", "realtime">>, <<"v1", "engines">>, <<"v1", "responses">> }

LONG_RUNNING_PATHS ==
  { <<"v1", "audio", "transcriptions">>, <<"v1", "audio", "translations">>,
    <<"v1", "images", "generations">>, <<"v1", "images", "edits">>,
    <<"v1", "images", "variations">>, <<"v1", "embeddings">>, <<"v1", "fine-tunes">>,
    <<"v1", "fine_tuning", "jobs">>, <<"v1", "files">>, <<"v1", "batches">> }

\* fetchWithRetry's default for options.retryableMethods
DefaultRetryableMethods == {"GET", "HEAD", "OPTIONS"}

\* the substrings fetchWithRetry looks for in a lower-cased error message
retryableErrors == {"timeout", "network", "connection", "fetch", "econnreset", "etimedout"}

(* ------------------------------ helpers ------------------------------- *)

Max(a, b) == IF a >= b THEN a ELSE b
Min(a, b) == IF a <= b THEN a ELSE b

RECURSIVE Pow2(_)
Pow2(n) == IF n = 0 THEN 1 ELSE 2 * Pow2(n - 1)

\* `x ?? d` and `x || d` on an optional number
OrElse(opt, d) == IF opt = <<>> THEN d ELSE opt[1]
OrElseFalsy(opt, d) == IF opt = <<>> \/ opt[1] = 0 THEN d ELSE opt[1]

\* String.includes on pathnames: pat occurs in path as a run of segments
Includes(path, pat) ==
  \E i \in 1..Len(path) :
    /\ i + Len(pat) - 1 <= Len(path)
    /\ SubSeq(path, i, i + Len(pat) - 1) = pat

(* ------------------------------- errors ------------------------------- *)

Err(name, words) == [name |-> name, words |-> words, status |-> 0]
NoError == Err("none", {})

\* AbortController.abort() rejects the fetch: "The operation was aborted"
AbortErr == Err("AbortError", {})
\* a network failure of fetch: TypeError "fetch failed"
NetErr == Err("TypeError", {"fetch failed", "fetch"})
\* "getaddrinfo ENOTFOUND host"
DnsErr == Err("Error", {"getaddrinfo"})
\* a failure inside forwardToBackground before the call (body buffering)
InternalErr == Err("TypeError", {})

\* new Request(url, ...) on a URL that does not parse: TypeError "Invalid URL"
InvalidUrlErr == Err("TypeError", {"invalid url"})

\* new Error(`Server error: ${status} ${statusText}`)
ServerError(status) == [name |-> "Error", words |-> {}, status |-> status]

\* categorizeError testing the DNS rule before the NETWORK rule
categorizeError_DnsBeforeNetwork(e) ==
  IF e.name = "AbortError" \/ "timeout" \in e.words
    THEN [type |-> "TIMEOUT", status |-> 504]
  ELSE IF "dns" \in e.words \/ "getaddrinfo" \in e.words
    THEN [type |-> "DNS", status |-> 502]
  ELSE IF "network" \in e.words \/ "fetch failed" \in e.words
    THEN [type |-> "NETWORK", status |-> 502]
  ELSE IF "connection refused" \in e.words \/ "econnrefused" \in e.words
    THEN [type |-> "CONNECTION", status |-> 503]
  ELSE IF "ssl" \in e.words \/ "tls" \in e.words \/ "certificate" \in e.words
    THEN [type |-> "SSL", status |-> 502]
  ELSE IF "size" \in e.words \/ "413" \in e.words
    THEN [type |-> "SIZE_LIMIT", status |-> 413]
  ELSE [type |-> "UNKNOWN", status |-> 500]

\* errors.ts categorizeError: first matching rule wins
categorizeError(e) ==
  IF e.name = "AbortError" \/ "timeout" \in e.words
    THEN [type |-> "TIMEOUT", status |-> 504]
  ELSE IF "network" \in e.words \/ "fetch failed" \in e.words
    THEN [type |-> "NETWORK", status |-> 502]
  ELSE IF "dns" \in e.words \/ "getaddrinfo" \in e.words
    THEN [type |-> "DNS", status |-> 502]
  ELSE IF "connection refused" \in e.words \/ "econnrefused" \in e.words
    THEN [type |-> "CONNECTION", status |-> 503]
  ELSE IF "ssl" \in e.words \/ "tls" \in e.words \/ "certificate" \in e.words
    THEN [type |-> "SSL", status |-> 502]
  ELSE IF "size" \in e.words \/ "413" \in e.words
    THEN [type |-> "SIZE_LIMIT", status |-> 413]
  ELSE [type |-> "UNKNOWN", status |-> 500]

(* ------------------------------ responses ----------------------------- *)

\* what the caller receives.  kind: "none" (nothing yet), "health", "preflight",
\* "error" (createErrorResponse), "stream" (handleInEdge's createStreamingResponse),
\* "relay" (forwardToBackground's relay of the Background response).
\* mode is the X-Processing-Mode header ("absent" when the header is not set).
Resp(kind, status, mode, message, type, governed) ==
  [kind |-> kind, status |-> status, mode |-> mode, message |-> message,
   type |-> type, governed |-> governed]

NoResponse == Resp("none", 0, "absent", "", "", FALSE)

\* errors.ts createErrorResponse(status, message, reqId, detail)
createErrorResponse(status, message, type) ==
  Resp("error", status, "absent", message, type, FALSE)

\* HandlerCatch answering every error with the long path's generic failure
HandlerCatch_Generic(e) ==
  createErrorResponse(500, "Background processing failed", "api_error")

\* handler's catch block: categorizeError, then createErrorResponse
HandlerCatch(e) ==
  LET errorInfo == categorizeError(e)
  IN  createErrorResponse(errorInfo.status, "categorized", errorInfo.type)

(* --------------------------- provider profiles ------------------------ *)

Profile(maxRetries, retryableMethods, allowFallback, maxResponseSize, timeout) ==
  [maxRetries |-> maxRetries, retryableMethods |-> retryableMethods,
   allowFallback |-> allowFallback, maxResponseSize |-> maxResponseSize,
   timeout |-> timeout, defaultHeaders |-> {}, host |-> "api.openai.com"]

\* the profile with defaultHeaders naming the headers `names`
WithDefaultHeaders(p, names) == [p EXCEPT !.defaultHeaders = names]

\* the profile with the host `host`
WithHost(p, host) == [p EXCEPT !.host = host]

\* new Request(`https://${host}/...`) parses the URL: a host with a space in it is
\* not a URL host and the constructor throws a TypeError
ValidUrlHost(host) == host # "bad host"

NoProfile == Profile(<<>>, <<>>, <<>>, <<>>, <<>>)

\* the profiles a registry entry may hold (built-in table or PROXY_CONFIG overlay)
Profiles ==
  { Profile(mr, rm, af, ms, <<>>) :
      mr \in {<<>>} \cup { <<n>> : n \in 0..MaxRetriesBound },
      rm \in {<<>>, <<{"GET", "HEAD", "OPTIONS", "POST"}>>},
      af \in {<<>>, <<TRUE>>, <<FALSE>>},
      ms \in {<<>>, <<OPENAI_MAX_RESPONSE_SIZE>>} }

KnownAliases == {"openai", "claude"}

\* handleInEdge: proxy.maxResponseSize || ENV.MAX_RESPONSE_SIZE
MaxSize(p) == OrElseFalsy(p.maxResponseSize, MAX_RESPONSE_SIZE)

(* ------------------------------ requests ------------------------------ *)

\* the correlation headers of a request, each absent (<<>>) or holding a string
Ids(xRequestId, xCorrelationId, xTraceId) ==
  [xRequestId |-> xRequestId, xCorrelationId |-> xCorrelationId, xTraceId |-> xTraceId]

NoIds == Ids(<<>>, <<>>, <<>>)

\* headers.get(name) || ... : an absent header and an empty one are both falsy
Falsy(h) == h = <<>> \/ h = <<"">>

\* getRequestId with the header names tried in the reverse order
getRequestId_TraceFirst(ids, uuid) ==
  IF ~Falsy(ids.xTraceId) THEN ids.xTraceId[1]
  ELSE IF ~Falsy(ids.xCorrelationId) THEN ids.xCorrelationId[1]
  ELSE IF ~Falsy(ids.xRequestId) THEN ids.xRequestId[1]
  ELSE uuid

\* utils.ts getRequestId; uuid is what crypto.randomUUID() returns
getRequestId(ids, uuid) ==
  IF ~Falsy(ids.xRequestId) THEN ids.xRequestId[1]
  ELSE IF ~Falsy(ids.xCorrelationId) THEN ids.xCorrelationId[1]
  ELSE IF ~Falsy(ids.xTraceId) THEN ids.xTraceId[1]
  ELSE uuid

\* an inbound request: pathname as segments, the `stream` query flag, whether
\* Accept includes text/event-stream, whether Content-Type includes
\* application/json, the body ("none", or what its JSON holds: "stream_true",
\* "stream_other", or "not_json" when parsing throws) and the declared length
Request(method, pathname, queryStream, acceptSSE, jsonType, body, contentLength) ==
  [method |-> method, pathname |-> pathname, queryStream |-> queryStream,
   acceptSSE |-> acceptSSE, jsonType |-> jsonType, body |-> body,
   contentLength |-> contentLength, ids |-> NoIds, headers |-> {}]

\* the request with the correlation headers `ids`
WithIds(r, ids) == [r EXCEPT !.ids = ids]

\* the request with further headers, given by their names
WithHeaders(r, names) == [r EXCEPT !.headers = names]

NoRequest == Request("", <<>>, FALSE, FALSE, FALSE, "none", <<>>)

Pathnames ==
  { <<"gateway", "health">>,
    <<"gateway", "openai">>,
    <<"gateway", "openai", "v1", "chat", "completions">>,
    <<"gateway", "openai", "v1", "embeddings">>,
    <<"gateway", "claude", "v1", "models">>,
    <<"gateway", "nosuch", "v1", "models">> }

BodyRequests ==
  { Request(m, pn, FALSE, FALSE, TRUE, b, cl) :
      m \in {"POST"},
      pn \in Pathnames,
      b \in {"stream_true", "stream_other"},
      cl \in {<<LARGE_BODY_THRESHOLD>>, <<LARGE_BODY_THRESHOLD + 1>>} }

BodylessRequests ==
  { Request(m, pn, FALSE, sse, FALSE, "none", <<>>) :
      m \in {"GET", "OPTIONS", "DELETE"},
      pn \in Pathnames,
      sse \in BOOLEAN }

\* the requests the dispatch specification receives
Requests == BodyRequests \cup BodylessRequests

\* isStreamingRequest testing the path before every signal
isStreamingRequest_PathFirst(req) ==
  IF ~(\E path \in STREAMING_PATHS : Includes(req.pathname, path)) THEN FALSE
  ELSE IF req.queryStream THEN TRUE
  ELSE IF req.acceptSSE THEN TRUE
  ELSE IF req.method = "POST" /\ req.body # "none" /\ req.jsonType /\ req.body # "not_json"
    THEN req.body = "stream_true"
  ELSE FALSE

\* utils.ts isStreamingRequest
isStreamingRequest(req) ==
  IF req.queryStream THEN TRUE
  ELSE IF req.acceptSSE THEN TRUE
  ELSE IF ~(\E path \in STREAMING_PATHS : Includes(req.pathname, path)) THEN FALSE
  ELSE IF req.method = "POST" /\ req.body # "none" /\ req.jsonType /\ req.body # "not_json"
    THEN req.body = "stream_true"
  ELSE FALSE

Decision(shouldForward, reason, estimatedDuration) ==
  [shouldForward |-> shouldForward, reason |-> reason,
   estimatedDuration |-> estimatedDuration]

NoDecision == Decision(FALSE, "", <<>>)

\* shouldForwardToBackground keeping only GET on the Edge by method
shouldForwardToBackground_GetOnly(req, service) ==
  IF req.method \in {"GET"}
    THEN Decision(FALSE, "Method suitable for Edge", <<>>)
  ELSE IF isStreamingRequest(req)
    THEN Decision(FALSE, "Streaming request", <<>>)
  ELSE IF \E path \in LONG_RUNNING_PATHS : Includes(req.pathname, path)
    THEN Decision(TRUE, "Long-running API", <<60000>>)
  ELSE IF req.contentLength # <<>> /\ req.contentLength[1] > LARGE_BODY_THRESHOLD
    THEN Decision(TRUE, "Large request body", <<30000>>)
  ELSE IF service = "openai" /\ Includes(req.pathname, <<"v1", "embeddings">>)
    THEN Decision(TRUE, "OpenAI embeddings API", <<20000>>)
  ELSE Decision(FALSE, "Default to Edge", <<>>)

\* shouldForwardToBackground with the size rule firing at the threshold itself
shouldForwardToBackground_SizeAtThreshold(req, service) ==
  IF req.method \in {"GET", "HEAD", "OPTIONS"}
    THEN Decision(FALSE, "Method suitable for Edge", <<>>)
  ELSE IF isStreamingRequest(req)
    THEN Decision(FALSE, "Streaming request", <<>>)
  ELSE IF \E path \in LONG_RUNNING_PATHS : Includes(req.pathname, path)
    THEN Decision(TRUE, "Long-running API", <<60000>>)
  ELSE IF req.contentLength # <<>> /\ req.contentLength[1] >= LARGE_BODY_THRESHOLD
    THEN Decision(TRUE, "Large request body", <<30000>>)
  ELSE IF service = "openai" /\ Includes(req.pathname, <<"v1", "embeddings">>)
    THEN Decision(TRUE, "OpenAI embeddings API", <<20000>>)
  ELSE Decision(FALSE, "Default to Edge", <<>>)

\* shouldForwardToBackground with the size rule ahead of the streaming rule
shouldForwardToBackground_SizeFirst(req, service) ==
  IF req.method \in {"GET", "HEAD", "OPTIONS"}
    THEN Decision(FALSE, "Method suitable for Edge", <<>>)
  ELSE IF req.contentLength # <<>> /\ req.contentLength[1] > LARGE_BODY_THRESHOLD
    THEN Decision(TRUE, "Large request body", <<30000>>)
  ELSE IF isStreamingRequest(req)
    THEN Decision(FALSE, "Streaming request", <<>>)
  ELSE IF \E path \in LONG_RUNNING_PATHS : Includes(req.pathname, path)
    THEN Decision(TRUE, "Long-running API", <<60000>>)
  ELSE IF service = "openai" /\ Includes(req.pathname, <<"v1", "embeddings">>)
    THEN Decision(TRUE, "OpenAI embeddings API", <<20000>>)
  ELSE Decision(FALSE, "Default to Edge", <<>>)

\* shouldForwardToBackground without the long-running path rule
shouldForwardToBackground_NoLongRunningRule(req, service) ==
  IF req.method \in {"GET", "HEAD", "OPTIONS"}
    THEN Decision(FALSE, "Method suitable for Edge", <<>>)
  ELSE IF isStreamingRequest(req)
    THEN Decision(FALSE, "Streaming request", <<>>)
  ELSE IF req.contentLength # <<>> /\ req.contentLength[1] > LARGE_BODY_THRESHOLD
    THEN Decision(TRUE, "Large request body", <<30000>>)
  ELSE IF service = "openai" /\ Includes(req.pathname, <<"v1", "embeddings">>)
    THEN Decision(TRUE, "OpenAI embeddings API", <<20000>>)
  ELSE Decision(FALSE, "Default to Edge", <<>>)

\* utils.ts shouldForwardToBackground
shouldForwardToBackground(req, service) ==
  IF req.method \in {"GET", "HEAD", "OPTIONS"}
    THEN Decision(FALSE, "Method suitable for Edge", <<>>)
  ELSE IF isStreamingRequest(req)
    THEN Decision(FALSE, "Streaming request", <<>>)
  ELSE IF \E path \in LONG_RUNNING_PATHS : Includes(req.pathname, path)
    THEN Decision(TRUE, "Long-running API", <<60000>>)
  ELSE IF req.contentLength # <<>> /\ req.contentLength[1] > LARGE_BODY_THRESHOLD
    THEN Decision(TRUE, "Large request body", <<30000>>)
  ELSE IF service = "openai" /\ Includes(req.pathname, <<"v1", "embeddings">>)
    THEN Decision(TRUE, "OpenAI embeddings API", <<20000>>)
  ELSE Decision(FALSE, "Default to Edge", <<>>)

\* handler splitting the pathname without stripping the /gateway prefix
HandlerSegments_KeepPrefix(pathname) == pathname

\* handler: pathname.startsWith('/gateway') ? pathname.replace('/gateway', '') : pathname,
\* then split('/').filter(Boolean)
HandlerSegments(pathname) ==
  IF Len(pathname) >= 1 /\ pathname[1] = "gateway" THEN Tail(pathname) ELSE pathname

\* String.replace('/gateway', '') on a pathname: the first occurrence is removed,
\* wherever it is
ReplaceGateway(pathname) ==
  IF \E i \in 1..Len(pathname) : pathname[i] = "gateway"
    THEN LET first == CHOOSE i \in 1..Len(pathname) :
                        /\ pathname[i] = "gateway"
                        /\ \A j \in 1..(i - 1) : pathname[j] # "gateway"
         IN  SubSeq(pathname, 1, first - 1) \o SubSeq(pathname, first + 1, Len(pathname))
    ELSE pathname

\* encodeURIComponent(s).replace(/%3A/gi, ':') on one segment of a URL's pathname:
\* the percent sign of an escape the URL already has is escaped again
EncodeSegment(seg) ==
  CASE seg = "a%20b" -> "a%2520b"
    [] OTHER -> seg

\* utils.ts sanitizePath
sanitizePath(parts) ==
  LET kept == SelectSeq(parts, LAMBDA seg : seg \notin {"", ".", ".."})
  IN  [i \in 1..Len(kept) |-> EncodeSegment(kept[i])]

\* handler 304-347: the user path given to handleInEdge by handler
HandlerUserPath(pathname) == sanitizePath(Tail(HandlerSegments(pathname)))

\* forwardToBackground 236-239: the user path given to handleInEdge by the fallback
FallbackUserPath(pathname) == sanitizePath(Tail(ReplaceGateway(pathname)))

\* forwardToBackground 152-153: the pathname of the forwarding call
BackgroundUrlPath(pathname) == <<"api", "background">> \o ReplaceGateway(pathname)

\* background.ts 156-172: '/api/background' is taken off the front of the forwarded
\* pathname, the first segment is the alias, the rest is the user path
BackgroundUserPath(forwarded) ==
  sanitizePath(Tail(SubSeq(forwarded, 3, Len(forwarded))))

\* handler without its health check
isHealthPath_Never(pathname) == FALSE

isHealthPath(pathname) == pathname \in { <<"gateway", "health">>, <<"health">> }

(* --------------------------- fetchWithRetry --------------------------- *)

\* delays are held in units of 1 / DelayScale ms so that the jitter is exact
DelayScale == 20 * JitterSteps

\* baseDelay = Math.min(100 * Math.pow(2, attempt), 5000)
BaseDelay(attempt) == Min(100 * Pow2(attempt), 5000)

\* BackoffDelay without the 100 ms floor
BackoffDelay_NoFloor(attempt, k) ==
  BaseDelay(attempt) * DelayScale + BaseDelay(attempt) * (6 * k - 3 * JitterSteps)

\* jitter = baseDelay * 0.3 * (Math.random() - 0.5); delay = Math.max(baseDelay + jitter, 100)
\* with Math.random() = k / JitterSteps; the result is in units of 1 / DelayScale ms
BackoffDelay(attempt, k) ==
  Max(BaseDelay(attempt) * DelayScale + BaseDelay(attempt) * (6 * k - 3 * JitterSteps),
      100 * DelayScale)

\* handleInEdge: maxRetries: ENV.ENABLE_RETRY ? (proxy.maxRetries ?? 1) : 0
EffectiveMaxRetries(p, enableRetry) == IF enableRetry THEN OrElse(p.maxRetries, 1) ELSE 0

\* fetchWithRetry: retryableMethods = ['GET', 'HEAD', 'OPTIONS'] unless the profile declares them
EffectiveRetryableMethods(p) == OrElse(p.retryableMethods, DefaultRetryableMethods)

\* RetryEnabled with && for ||
RetryEnabled_Both(mr, methods, method) == ~(mr <= 0 /\ method \notin methods)

\* fetchWithRetry line 20 negated: the attempt loop is entered
RetryEnabled(mr, methods, method) == ~(mr <= 0 \/ method \notin methods)

\* ShouldRetryResponse treating every error status as retryable
ShouldRetryResponse_From400(status, att, mr) == status >= 400 /\ att < mr

\* ShouldRetryResponse without the remaining-attempts test
ShouldRetryResponse_NoLimit(status, att, mr) == status >= 500

\* line 41: response.status >= 500 && attempt < maxRetries
ShouldRetryResponse(status, att, mr) == status >= 500 /\ att < mr

\* line 64 negated: the message contains one of retryableErrors
IsRetryableMessage(e) == e.words \cap retryableErrors # {}

\* ShouldRetryError without the test for the last attempt
ShouldRetryError_NoLimit(e, att, mr) == IsRetryableMessage(e)

\* ShouldRetryError without the test of the message
ShouldRetryError_AnyMessage(e, att, mr) == att # mr

\* lines 58-66: neither `attempt === maxRetries` nor a non-retryable message breaks
ShouldRetryError(e, att, mr) == att # mr /\ IsRetryableMessage(e)

\* NextAttempt with the increment lost
NextAttempt_Stuck(att) == att

\* the for statement's attempt++
NextAttempt(att) == att + 1

\* the for statement's condition
LoopContinues(att, mr) == att <= mr

\* what one outbound attempt produced: a response (error = NoError) or a thrown error
Outcome(status, contentLength, error) ==
  [status |-> status, contentLength |-> contentLength, error |-> error]

NoOutcome == Outcome(0, <<>>, NoError)

\* the upstream's answers to one attempt: statuses 200, 404, 503, and for a 200 a
\* declared Content-Length at and just over the profile's size limit
UpstreamResponses(p) ==
  { Outcome(200, <<>>, NoError), Outcome(404, <<>>, NoError), Outcome(503, <<>>, NoError),
    Outcome(200, <<MaxSize(p)>>, NoError), Outcome(200, <<MaxSize(p) + 1>>, NoError) }

\* the errors one attempt may throw
UpstreamErrors == {AbortErr, NetErr, DnsErr}

\* the errors the forwarding call of forwardToBackground may throw
ForwardErrors == {AbortErr, NetErr}

\* the statuses the Background function may answer with
BackgroundStatuses == {200, 400, 502}

(* --------------------------- forward headers -------------------------- *)

\* a header name is the sequence of its parts between dashes; a part is written in
\* lower case or capitalised
ToLower(part) ==
  CASE part = "Host" -> "host"
    [] part = "Connection" -> "connection"
    [] part = "Cookie" -> "cookie"
    [] part = "User" -> "user"
    [] part = "Agent" -> "agent"
    [] part = "X" -> "x"
    [] part = "Authorization" -> "authorization"
    [] OTHER -> part

\* String.toLowerCase on a header name
toLowerCase(name) == [i \in 1..Len(name) |-> ToLower(name[i])]

\* config.ts ALLOWED_REQUEST_HEADERS
ALLOWED_REQUEST_HEADERS ==
  { <<"content", "type">>, <<"content", "length">>, <<"accept">>, <<"accept", "encoding">>,
    <<"accept", "language">>, <<"authorization">>, <<"user", "agent">>, <<"referer">>,
    <<"origin">>, <<"x", "api", "key">>, <<"x", "goog", "api", "key">>, <<"api", "key">>,
    <<"anthropic", "version">>, <<"anthropic", "beta">>, <<"openai", "beta">>,
    <<"openai", "organization">>, <<"x", "stainless", "arch">>, <<"x", "stainless", "lang">>,
    <<"x", "stainless", "os">>, <<"x", "stainless", "package", "version">>,
    <<"x", "stainless", "runtime">>, <<"x", "stainless", "runtime", "version">> }

\* config.ts BLOCKED_REQUEST_HEADERS
BLOCKED_REQUEST_HEADERS ==
  { <<"host">>, <<"connection">>, <<"cf", "connecting", "ip">>, <<"cf", "ray">>,
    <<"x", "forwarded", "for">>, <<"x", "real", "ip">>, <<"cookie">>, <<"set", "cookie">> }

\* lower.startsWith('x-'): the first part is x and a dash follows it
StartsWithX(lower) == Len(lower) >= 2 /\ lower[1] = "x"

\* lower.startsWith('x-forwarded'), lower.startsWith('x-real'): the second part only
\* has to begin with the word
StartsWithXForwarded(lower) ==
  StartsWithX(lower) /\ lower[2] \in {"forwarded", "forwardedby"}
StartsWithXReal(lower) ==
  StartsWithX(lower) /\ lower[2] \in {"real", "realm"}

\* isAllowedHeader with the allow-list consulted before the deny-list
isAllowedHeader_AllowFirst(headerName) ==
  LET lower == toLowerCase(headerName)
  IN  IF lower \in ALLOWED_REQUEST_HEADERS \/ StartsWithX(lower) THEN TRUE
      ELSE FALSE

\* utils.ts isAllowedHeader
isAllowedHeader(headerName) ==
  LET lower == toLowerCase(headerName)
  IN  IF lower \in BLOCKED_REQUEST_HEADERS THEN FALSE
      ELSE IF lower \in ALLOWED_REQUEST_HEADERS THEN TRUE
      ELSE StartsWithX(lower) /\ ~StartsWithXForwarded(lower) /\ ~StartsWithXReal(lower)

\* buildForwardHeaders without the final deletes and without the default User-Agent
buildForwardHeaders_NoCleanup(clientHeaders, p) ==
  LET defaults == { toLowerCase(k) : k \in p.defaultHeaders }
      copied == { toLowerCase(k) : k \in { h \in clientHeaders : isAllowedHeader(h) } }
  IN  [n \in defaults \cup copied |-> IF n \in copied THEN "client" ELSE "default"]

\* utils.ts buildForwardHeaders: the profile's defaultHeaders, then the allowed client
\* headers over them, a User-Agent if none is there, and host and connection deleted.
\* The result maps each outbound header (lower-case name) to where its value is from.
buildForwardHeaders(clientHeaders, p) ==
  LET defaults == { toLowerCase(k) : k \in p.defaultHeaders }
      copied == { toLowerCase(k) : k \in { h \in clientHeaders : isAllowedHeader(h) } }
      withAgent == defaults \cup copied \cup { <<"user", "agent">> }
      kept == withAgent \ { <<"host">>, <<"connection">> }
  IN  [n \in kept |-> IF n \in copied THEN "client"
                      ELSE IF n \in defaults THEN "default"
                      ELSE "synthesized"]

\* the headers forwardToBackground puts on the forwarding call (156-163), as the
\* Headers object holds them: X-Request-Id, X-Service-Config, X-Original-IP
GatewayHeaders ==
  { <<"x", "request", "id">>, <<"x", "service", "config">>, <<"x", "original", "ip">> }

\* new Headers(req.headers) and the three set calls
ForwardCallHeaders(clientHeaders) ==
  { toLowerCase(h) : h \in clientHeaders } \cup GatewayHeaders

\* key.startsWith('x-service')
StartsWithXService(lower) ==
  StartsWithX(lower) /\ lower[2] \in {"service", "services"}

\* background.ts 194-199: the headers of the forwarding call without the x-service ones
BackgroundClientHeaders(received) ==
  { k \in received : ~StartsWithXService(k) }

\* background.ts 194-206: the headers the Background function sends to the upstream
BackgroundForwardHeaders(clientHeaders, p) ==
  buildForwardHeaders(BackgroundClientHeaders(ForwardCallHeaders(clientHeaders)), p)

(* --------------------------- the request body ------------------------- *)

\* the body stream of the inbound Request: `original` is "none" (no body), "unread",
\* "sent" (handed to the upstream Request by handleInEdge) or "peeked" (read by the
\* routing decision); clones counts req.clone() calls, clonesRead the clones read
BodyStream(original, clones, clonesRead) ==
  [original |-> original, clones |-> clones, clonesRead |-> clonesRead]

NoBody == BodyStream("none", 0, 0)

\* the body stream of request r on arrival
ArrivingBody(r) == IF r.body = "none" THEN NoBody ELSE BodyStream("unread", 0, 0)

\* isStreamingRequest reading the request's own body: await req.json()
PeekBody_ReadsOriginal(r, b) ==
  IF r.method \in {"GET", "HEAD", "OPTIONS"} \/ r.queryStream \/ r.acceptSSE
     \/ ~(\E path \in STREAMING_PATHS : Includes(r.pathname, path))
     \/ ~(r.method = "POST" /\ r.body # "none")
    THEN b
  ELSE IF r.jsonType THEN [b EXCEPT !.original = "peeked"]
  ELSE b

\* utils.ts 112-124 as reached from shouldForwardToBackground: req.clone(), and
\* cloned.json() when the Content-Type is JSON
PeekBody(r, b) ==
  IF r.method \in {"GET", "HEAD", "OPTIONS"} \/ r.queryStream \/ r.acceptSSE
     \/ ~(\E path \in STREAMING_PATHS : Includes(r.pathname, path))
     \/ ~(r.method = "POST" /\ r.body # "none")
    THEN b
  ELSE IF r.jsonType
    THEN [b EXCEPT !.clones = @ + 1, !.clonesRead = @ + 1]
  ELSE [b EXCEPT !.clones = @ + 1]

\* handleInEdge 69: body: req.method !== 'GET' && req.method !== 'HEAD' ? req.body : null
SendBody(r, b) ==
  IF r.method \notin {"GET", "HEAD"} /\ b.original = "unread"
    THEN [b EXCEPT !.original = "sent"]
    ELSE b

\* forwardToBackground 167-169: req.clone() and clonedReq.arrayBuffer()
BufferBody(b) == [b EXCEPT !.clones = @ + 1, !.clonesRead = @ + 1]

(* ----------------------- the Background function ---------------------- *)

\* the JSON body of an error response: the keys of its `error` object, its top-level
\* keys, error.type and error.request_id
Envelope(errorKeys, topKeys, type, request_id) ==
  [errorKeys |-> errorKeys, topKeys |-> topKeys, type |-> type, request_id |-> request_id]

\* a body that is not an error document of the gateway
NoEnvelope == Envelope({}, {}, "", <<>>)

\* background.ts line 137: req.headers['x-request-id'] || crypto.randomUUID()
BackgroundReqId(xRequestId) ==
  IF Falsy(xRequestId) THEN "uuid-background" ELSE xRequestId[1]

\* background.ts 296-325: the catch block's response to error e
BackgroundFailure(e, xRequestId) ==
  [status |-> categorizeError(e).status,
   envelope |-> Envelope({"message", "type", "request_id", "duration_ms", "timestamp"},
                         {"error"}, categorizeError(e).type,
                         <<BackgroundReqId(xRequestId)>>)]

\* background.ts 229-293: the upstream's own response is sent back
BackgroundSuccess(status) == [status |-> status, envelope |-> NoEnvelope]

NoAnswer == BackgroundSuccess(0)

\* what the Background function may answer with status `status` to a forwarding call
\* whose X-Request-Id header is xRequestId
BackgroundAnswers(status, xRequestId) ==
  { BackgroundSuccess(status) } \cup
  { BackgroundFailure(e, xRequestId) :
      e \in { x \in UpstreamErrors : categorizeError(x).status = status } }

(* ------------------------------ dispatch ------------------------------ *)

\* a timer: its state and the delay it was set with
Timer(state, ms) == [state |-> state, ms |-> ms]

NoTimer == Timer("unset", 0)

\* a chunk of a body: its position in the upstream body and its byteLength
Chunk(seq, byteLength) == [seq |-> seq, byteLength |-> byteLength]

\* EdgeTimeout without the 20000 ms ceiling
EdgeTimeout_NoCeiling(p, defaultTimeout) == OrElseFalsy(p.timeout, defaultTimeout)

\* handleInEdge line 62: Math.min(proxy.timeout || ENV.DEFAULT_TIMEOUT, 20000)
EdgeTimeout(p, defaultTimeout) ==
  Min(OrElseFalsy(p.timeout, defaultTimeout), EDGE_TIMEOUT_CEILING)

\* clearTimeout leaving the timer armed
clearTimeout_Noop(t) == t

\* clearTimeout(timeoutId): a pending timer is cancelled, a fired one is left as it is
clearTimeout(t) == IF t.state = "armed" THEN Timer("cleared", t.ms) ELSE t

\* the timer callback ran: controller.abort()
Fired(t) == Timer("fired", t.ms)

\* forwardToBackground line 235
FallbackPermitted(p, enableFallback) == p.allowFallback # <<FALSE>> /\ enableFallback

\* BackgroundCatch with the degradation branch left out
BackgroundCatch_NeverFallsBack(e, p, enableFallback) ==
  IF e.name = "AbortError" THEN "timeout" ELSE "failed"

\* forwardToBackground's catch block, lines 217-244: what it does with the error
BackgroundCatch(e, p, enableFallback) ==
  IF e.name = "AbortError" THEN "timeout"
  ELSE IF FallbackPermitted(p, enableFallback) THEN "fallback"
  ELSE "failed"

\* EdgeResponse without the test of the declared Content-Length
EdgeResponse_NoLengthCheck(up, p) ==
  Resp("stream", up.status, "edge", "", "", up.contentLength = <<>> /\ MaxSize(p) > 0)

\* handleInEdge lines 83-126, after fetchWithRetry returned `up`
EdgeResponse(up, p) ==
  IF up.contentLength # <<>> /\ up.contentLength[1] > MaxSize(p)
    THEN createErrorResponse(413, "Response size exceeds limit", "api_error")
    ELSE Resp("stream", up.status, "edge", "", "", up.contentLength = <<>> /\ MaxSize(p) > 0)

\* forwardToBackground lines 195-211
RelayResponse(status) == Resp("relay", status, "background", "", "", FALSE)

(* ------------------------- headers and bodies ------------------------- *)

\* the headers of a response that the caller can rely on: X-Request-Id,
\* X-Processing-Mode and Access-Control-Allow-Origin (each <<>> when not set) and
\* whether X-Processing-Time is set
Headers(requestId, mode, time, allowOrigin) ==
  [requestId |-> requestId, mode |-> mode, time |-> time, allowOrigin |-> allowOrigin]

NoHeaders == Headers(<<>>, <<>>, FALSE, <<>>)

\* createErrorResponse, errors.ts 95-102
ErrorHeaders(id, origin) == Headers(<<id>>, <<>>, FALSE, <<origin>>)

\* handler's health response (gateway.ts 276-291) and preflight response (295-300):
\* Object.fromEntries(createCorsHeaders()) and createCorsHeaders()
CorsOnlyHeaders(origin) == Headers(<<>>, <<>>, FALSE, <<origin>>)

\* handleInEdge 96-104: processResponseHeaders(upstream headers, reqId, 'edge'), then
\* X-Processing-Time
EdgeHeaders(id, origin) == Headers(<<id>>, <<"edge">>, TRUE, <<origin>>)

\* forwardToBackground 195-205
RelayHeaders(id, origin) == Headers(<<id>>, <<"background">>, TRUE, <<origin>>)

\* the headers of response r, built for the request with context.reqId = id
HeadersOf(r, id, origin) ==
  CASE r.kind = "error" -> ErrorHeaders(id, origin)
    [] r.kind \in {"health", "preflight"} -> CorsOnlyHeaders(origin)
    [] r.kind = "stream" -> EdgeHeaders(id, origin)
    [] r.kind = "relay" -> RelayHeaders(id, origin)
    [] OTHER -> NoHeaders

\* the `detail` argument of createErrorResponse at its call sites, spread into the
\* top level of the body: handler 310-317 (400), 328-332 (404), 361-366 (catch)
DetailKeys(message) ==
  CASE message = "Invalid path format" -> {"availableServices", "example"}
    [] message = "Service not found" -> {"availableServices"}
    [] message = "categorized" -> {"type"}
    [] OTHER -> {}

\* createErrorResponse, errors.ts 84-93: the body of an error response of the Edge
EdgeErrorEnvelope(r, id) ==
  Envelope({"message", "type", "request_id"},
           {"error", "status", "timestamp"} \cup DetailKeys(r.message),
           "api_error", <<id>>)

\* the error document in the body of response r: the Edge's own, or the one the
\* Background function sent and forwardToBackground relays untouched (207)
EnvelopeOf(r, id, answer) ==
  CASE r.kind = "error" -> EdgeErrorEnvelope(r, id)
    [] r.kind = "relay" -> answer.envelope
    [] OTHER -> NoEnvelope

(* ------------------------------- state -------------------------------- *)

VARIABLES
  ENV,        \* process-wide settings: ENABLE_RETRY, ENABLE_FALLBACK, DEFAULT_TIMEOUT,
              \* ALLOWED_ORIGIN
  PROXIES,    \* the provider registry, alias -> profile
  pc,         \* where the request's handling stands
  req,        \* the inbound request
  service,    \* context.service
  proxy,      \* the profile looked up for the request
  decision,   \* the ForwardDecision
  bgError,    \* the error forwardToBackground caught
  upstream,   \* the response fetchWithRetry returned to handleInEdge
  edgeError,  \* the error handleInEdge threw
  response,   \* the response returned to the caller
  maxRetries, \* fetchWithRetry's options.maxRetries
  looping,    \* fetchWithRetry is in its attempt loop (not the single-fetch return)
  attempt,    \* the loop variable
  lastError,  \* fetchWithRetry's lastError
  delay,      \* the backoff delay being waited, in 1 / DelayScale ms
  log,        \* the outcomes of the attempts of this fetchWithRetry invocation
  calls,      \* how many times each stage ran for this request
  edgeTimer,  \* handleInEdge's setTimeout: state unset/armed/fired/cleared and its ms
  body,       \* the response body handed to the caller: none/open/errored/closed
  maxSize,    \* createSizeLimitedStream's maxSize, <<>> when no governor is piped in
  totalBytes, \* createSizeLimitedStream's totalBytes
  aborted,    \* createSizeLimitedStream's aborted
  abortedSets, \* how many times `aborted = true` was executed
  fed,        \* the chunks the upstream body delivered so far
  forwarded,  \* the chunks enqueued to the caller so far
  forwardTimer, \* forwardToBackground's setTimeout
  reqId,      \* context.reqId
  background, \* what the Background function answered to the forwarding call
  forwardHeaders, \* the headers handleInEdge sends upstream: lower-case name -> origin
  reqBody,    \* the inbound Request's body stream and its clones
  userPath,   \* the user path handleInEdge was given and the one the Background
              \* function derived, each <<>> until derived
  backgroundHeaders, \* the headers the Background function sends upstream
  tasks       \* the locals of requests handled side by side, request -> locals

vars == <<ENV, PROXIES, pc, req, service, proxy, decision, bgError, upstream, edgeError,
          response, maxRetries, looping, attempt, lastError, delay, log, calls,
          edgeTimer, body, maxSize, totalBytes, aborted, abortedSets, fed, forwarded,
          forwardTimer, reqId, background, forwardHeaders,
          reqBody, userPath, backgroundHeaders, tasks>>

config == <<ENV, PROXIES>>
routing == <<req, service, proxy, decision>>
retry == <<maxRetries, looping, attempt, lastError, delay, log>>
governor == <<maxSize, totalBytes, aborted, abortedSets>>
stream == <<body, fed, forwarded>>
transfer == <<edgeTimer, governor, stream>>
handling == <<forwardTimer, reqId, background, forwardHeaders>>
passage == <<reqBody, userPath, backgroundHeaders, tasks>>

NoUserPath == [edge |-> <<>>, background |-> <<>>]

\* the state of a request before handler ran: body, paths, long-path headers; and no
\* requests side by side
NoPassage ==
  /\ reqBody = NoBody
  /\ userPath = NoUserPath
  /\ backgroundHeaders = <<>>
  /\ tasks = <<>>

\* the state of a request before handler ran
NoHandling ==
  /\ forwardTimer = NoTimer
  /\ reqId = ""
  /\ background = NoAnswer
  /\ forwardHeaders = <<>>

\* the state of a request before handleInEdge ran: no timer, no body, no governor
NoTransfer ==
  /\ edgeTimer = NoTimer
  /\ body = "none"
  /\ maxSize = <<>>
  /\ totalBytes = 0
  /\ aborted = FALSE
  /\ abortedSets = 0
  /\ fed = <<>>
  /\ forwarded = <<>>

NoCalls ==
  [decisions |-> 0, forwards |-> 0, forwardFetches |-> 0, edges |-> 0,
   executors |-> 0, attempts |-> 0, delays |-> 0]

Bump(c, field) == [c EXCEPT ![field] = @ + 1]

Init ==
  /\ ENV \in [ENABLE_RETRY : BOOLEAN, ENABLE_FALLBACK : BOOLEAN,
              DEFAULT_TIMEOUT : {DEFAULT_TIMEOUT}, ALLOWED_ORIGIN : {"*"}]
  /\ PROXIES \in { [a \in KnownAliases |-> p] : p \in Profiles }
  /\ pc = "idle"
  /\ req = NoRequest
  /\ service = ""
  /\ proxy = NoProfile
  /\ decision = NoDecision
  /\ bgError = NoError
  /\ upstream = NoOutcome
  /\ edgeError = NoError
  /\ response = NoResponse
  /\ maxRetries = 0
  /\ looping = FALSE
  /\ attempt = 0
  /\ lastError = NoError
  /\ delay = 0
  /\ log = <<>>
  /\ calls = NoCalls
  /\ NoTransfer
  /\ NoHandling
  /\ NoPassage

\* the headers and the error document of the response the caller received
ResponseHeaders == HeadersOf(response, reqId, ENV.ALLOWED_ORIGIN)
ResponseEnvelope == EnvelopeOf(response, reqId, background)

(* ------------------------------ actions ------------------------------- *)

\* the request ends with `r` returned to the caller
Return(r) ==
  /\ response' = r
  /\ pc' = "done"

\* handleInEdge is entered and runs up to fetchWithRetry's first `await fetch`
\* (gateway.ts 48-79, middleware.ts 17-38); c is the stage counter so far
EnterEdge(c) ==
  LET mr == EffectiveMaxRetries(proxy, ENV.ENABLE_RETRY)
  IN  /\ forwardHeaders' = buildForwardHeaders(req.headers, proxy)
      /\ edgeTimer' = Timer("armed", EdgeTimeout(proxy, ENV.DEFAULT_TIMEOUT))
      /\ UNCHANGED <<governor, stream>>
      /\ IF ValidUrlHost(proxy.host)
           THEN /\ maxRetries' = mr
                /\ looping' = RetryEnabled(mr, EffectiveRetryableMethods(proxy), req.method)
                /\ attempt' = 0
                /\ lastError' = NoError
                /\ delay' = 0
                /\ log' = <<>>
                /\ calls' = Bump(Bump(Bump(c, "edges"), "executors"), "attempts")
                /\ pc' = "fetch"
                /\ response' = response
           \* new Request(upstreamURL, ...) at lines 65-71 throws, outside the try
           \* block that starts at line 73: handler's catch answers
           ELSE /\ UNCHANGED retry
                /\ calls' = Bump(c, "edges")
                /\ Return(HandlerCatch(InvalidUrlErr))

\* forwardToBackground is entered and runs up to its first await: the body
\* buffering for POST/PUT/PATCH with a body, else the forwarding fetch (142-184)
EnterBackground(c) ==
  /\ IF req.body # "none" /\ req.method \in {"POST", "PUT", "PATCH"}
       THEN /\ pc' = "forward_body"
            /\ calls' = Bump(c, "forwards")
            /\ UNCHANGED forwardTimer
       ELSE /\ pc' = "forward_fetch"
            /\ calls' = Bump(Bump(c, "forwards"), "forwardFetches")
            /\ forwardTimer' = Timer("armed", FORWARD_TIMEOUT)
  /\ UNCHANGED <<response, retry, transfer, forwardHeaders, userPath>>

\* handler lines 250-333: health check, preflight, path parsing, registry lookup
Receive(r) ==
  /\ pc = "idle"
  /\ req' = r
  /\ reqId' = getRequestId(r.ids, "uuid-gateway")
  /\ reqBody' = ArrivingBody(r)
  /\ LET segments == HandlerSegments(r.pathname)
     IN  IF isHealthPath(r.pathname)
           THEN Return(Resp("health", 200, "absent", "", "", FALSE))
                /\ UNCHANGED <<service, proxy>>
         ELSE IF r.method = "OPTIONS"
           THEN Return(Resp("preflight", 204, "absent", "", "", FALSE))
                /\ UNCHANGED <<service, proxy>>
         ELSE IF Len(segments) < 2
           THEN Return(createErrorResponse(400, "Invalid path format", "api_error"))
                /\ UNCHANGED <<service, proxy>>
         ELSE IF segments[1] \notin DOMAIN PROXIES
           THEN Return(createErrorResponse(404, "Service not found", "api_error"))
                /\ service' = segments[1]
                /\ UNCHANGED proxy
         ELSE /\ service' = segments[1]
              /\ proxy' = PROXIES[segments[1]]
              /\ pc' = "decide"
              /\ response' = response
  /\ UNCHANGED <<config, decision, bgError, upstream, edgeError, retry, calls, transfer,
                 forwardTimer, background, forwardHeaders, userPath, backgroundHeaders,
                 tasks>>

\* handler lines 335-349: the routing decision, then the chosen path is entered
Decide ==
  /\ pc = "decide"
  /\ decision' = shouldForwardToBackground(req, service)
  /\ IF decision'.shouldForward
       THEN /\ EnterBackground(Bump(calls, "decisions"))
            /\ reqBody' = PeekBody(req, reqBody)
       ELSE /\ EnterEdge(Bump(calls, "decisions"))
            /\ reqBody' = SendBody(req, PeekBody(req, reqBody))
            /\ userPath' = [userPath EXCEPT !.edge = <<HandlerUserPath(req.pathname)>>]
            /\ UNCHANGED forwardTimer
  /\ UNCHANGED <<config, req, service, proxy, bgError, upstream, edgeError, reqId, background,
                 backgroundHeaders, tasks>>

\* forwardToBackground's catch block (217-244) on error e
ForwardCatch(e, c) ==
  /\ bgError' = e
  /\ LET what == BackgroundCatch(e, proxy, ENV.ENABLE_FALLBACK)
     IN  IF what = "timeout"
           THEN /\ Return(createErrorResponse(504, "Background processing timeout", "api_error"))
                /\ calls' = c
                /\ UNCHANGED <<retry, transfer, forwardHeaders, reqBody, userPath>>
         ELSE IF what = "fallback"
           THEN /\ EnterEdge(c)
                /\ reqBody' = SendBody(req, reqBody)
                /\ userPath' = [userPath EXCEPT !.edge = <<FallbackUserPath(req.pathname)>>]
         ELSE /\ Return(createErrorResponse(500, "Background processing failed", "api_error"))
              /\ calls' = c
              /\ UNCHANGED <<retry, transfer, forwardHeaders, reqBody, userPath>>

\* lines 166-184: the body is buffered and the forwarding fetch is issued
ForwardBodyBuffered ==
  /\ pc = "forward_body"
  /\ pc' = "forward_fetch"
  /\ calls' = Bump(calls, "forwardFetches")
  /\ forwardTimer' = Timer("armed", FORWARD_TIMEOUT)
  /\ reqBody' = BufferBody(reqBody)
  /\ UNCHANGED <<config, routing, bgError, upstream, edgeError, response, retry, transfer,
                 reqId, background, forwardHeaders, userPath, backgroundHeaders, tasks>>

\* lines 168-169: buffering the body throws
ForwardBodyThrows ==
  /\ pc = "forward_body"
  /\ ForwardCatch(InternalErr, calls)
  /\ UNCHANGED <<config, routing, upstream, edgeError, forwardTimer, reqId, background,
                 backgroundHeaders, tasks>>

\* lines 179-211: the Background function answered the forwarding call, which carried
\* X-Request-Id = context.reqId (line 158); the timer is cleared, the answer is relayed
ForwardReturns(status) ==
  /\ pc = "forward_fetch"
  /\ background' \in BackgroundAnswers(status, <<reqId>>)
  /\ forwardTimer' = clearTimeout(forwardTimer)
  /\ Return(RelayResponse(status))
  /\ userPath' = [userPath EXCEPT
                    !.background = <<BackgroundUserPath(BackgroundUrlPath(req.pathname))>>]
  /\ backgroundHeaders' = BackgroundForwardHeaders(req.headers, proxy)
  /\ UNCHANGED <<config, routing, bgError, upstream, edgeError, retry, calls, transfer,
                 reqId, forwardHeaders, reqBody, tasks>>

\* ForwardThrows re-invoking the long path on failure instead of switching paths
ForwardThrows_Reinvoke(e) ==
  /\ pc = "forward_fetch"
  /\ bgError' = e
  /\ calls' = Bump(Bump(calls, "forwards"), "forwardFetches")
  /\ pc' = "forward_fetch"
  /\ UNCHANGED <<config, routing, upstream, edgeError, response, retry, transfer, handling, passage>>

\* lines 179-184, 213-217: the forwarding fetch throws (its timer aborts it, or the
\* network fails); `finally` clears the timer.  An AbortError comes from the timer only.
ForwardThrows(e) ==
  /\ pc = "forward_fetch"
  /\ forwardTimer' =
       clearTimeout(IF e.name = "AbortError" THEN Fired(forwardTimer) ELSE forwardTimer)
  /\ ForwardCatch(e, calls)
  /\ UNCHANGED <<config, routing, upstream, edgeError, reqId, background,
                 backgroundHeaders, tasks>>

\* an error leaves fetchWithRetry: handleInEdge clears its timer and rethrows (128-131),
\* nothing in forwardToBackground's catch block catches it, handler's catch classifies
\* it (351-367).  An AbortError comes from the timer's controller.abort() only.
EdgeThrows(e) ==
  /\ edgeError' = e
  /\ edgeTimer' = clearTimeout(IF e.name = "AbortError" THEN Fired(edgeTimer) ELSE edgeTimer)
  /\ Return(HandlerCatch(e))
  /\ UNCHANGED <<upstream, governor, stream>>

\* fetchWithRetry returns `out`: handleInEdge clears its timer (81) and builds the
\* response (83-126); a streamed body starts to flow, through the governor if piped in
EdgeReturns(out) ==
  /\ upstream' = out
  /\ edgeTimer' = clearTimeout(edgeTimer)
  /\ Return(EdgeResponse(out, proxy))
  /\ body' = IF EdgeResponse(out, proxy).kind = "stream" THEN "open" ELSE "none"
  /\ maxSize' = IF EdgeResponse(out, proxy).governed THEN <<MaxSize(proxy)>> ELSE <<>>
  /\ UNCHANGED <<edgeError, totalBytes, aborted, abortedSets, fed, forwarded>>

\* middleware.ts 38-53 (and line 21): the attempt in flight answers with `out`
FetchReturns(out) ==
  /\ pc = "fetch"
  /\ edgeTimer.state # "fired"
  /\ log' = Append(log, out)
  /\ IF looping /\ ShouldRetryResponse(out.status, attempt, maxRetries)
       THEN /\ lastError' = ServerError(out.status)
            /\ \E k \in 0..(JitterSteps - 1) : delay' = BackoffDelay(attempt, k)
            /\ pc' = "backoff"
            /\ calls' = Bump(calls, "delays")
            /\ UNCHANGED <<upstream, edgeError, response, transfer>>
       ELSE /\ EdgeReturns(out)
            /\ UNCHANGED <<lastError, delay, calls>>
  /\ UNCHANGED <<config, routing, bgError, maxRetries, looping, attempt, handling, passage>>

\* middleware.ts 55-75 (and line 21): the attempt in flight throws e
FetchThrows(e) ==
  /\ pc = "fetch"
  /\ edgeTimer.state = "fired" => e.name = "AbortError"
  /\ log' = Append(log, Outcome(0, <<>>, e))
  /\ IF ~looping
       THEN /\ EdgeThrows(e)
            /\ UNCHANGED <<lastError, delay, calls>>
       ELSE /\ lastError' = e
            /\ IF ShouldRetryError(e, attempt, maxRetries)
                 THEN /\ \E k \in 0..(JitterSteps - 1) : delay' = BackoffDelay(attempt, k)
                      /\ pc' = "backoff"
                      /\ calls' = Bump(calls, "delays")
                      /\ UNCHANGED <<upstream, edgeError, response, transfer>>
                 ELSE /\ EdgeThrows(e)
                      /\ UNCHANGED <<delay, calls>>
  /\ UNCHANGED <<config, routing, bgError, maxRetries, looping, attempt, handling, passage>>

\* the backoff timer resolves (49-50, 74-76): attempt++, the loop condition, and
\* either the next attempt is issued (38) or the loop ends and lastError is thrown (78)
BackoffElapsed ==
  /\ pc = "backoff"
  /\ attempt' = NextAttempt(attempt)
  /\ delay' = 0
  /\ IF LoopContinues(attempt', maxRetries)
       THEN /\ pc' = "fetch"
            /\ calls' = Bump(calls, "attempts")
            /\ UNCHANGED <<upstream, edgeError, response, transfer>>
       ELSE /\ EdgeThrows(lastError)
            /\ UNCHANGED calls
  /\ UNCHANGED <<config, routing, bgError, maxRetries, looping, lastError, log, handling, passage>>

Next ==
  \/ \E r \in Requests : Receive(r)
  \/ Decide
  \/ ForwardBodyBuffered
  \/ ForwardBodyThrows
  \/ \E status \in BackgroundStatuses : ForwardReturns(status)
  \/ \E e \in ForwardErrors : ForwardThrows(e)
  \/ \E out \in UpstreamResponses(proxy) : FetchReturns(out)
  \/ \E e \in UpstreamErrors : FetchThrows(e)
  \/ BackoffElapsed

Spec == Init /\ [][Next]_vars

\* every await resolves: each attempt ends and each timer fires
FairSpec == Spec /\ WF_vars(Next)

(* ---------------------- backoff specification ------------------------- *)

\* the backoff computation on its own: Init draws the index of the attempt that
\* failed, ComputeBackoff draws Math.random() and computes the delay
InitBackoff ==
  /\ ENV = [ENABLE_RETRY |-> TRUE, ENABLE_FALLBACK |-> TRUE,
            DEFAULT_TIMEOUT |-> DEFAULT_TIMEOUT, ALLOWED_ORIGIN |-> "*"]
  /\ PROXIES = [a \in KnownAliases |-> NoProfile]
  /\ pc = "backoff_input"
  /\ req = NoRequest
  /\ service = ""
  /\ proxy = NoProfile
  /\ decision = NoDecision
  /\ bgError = NoError
  /\ upstream = NoOutcome
  /\ edgeError = NoError
  /\ response = NoResponse
  /\ maxRetries = MaxAttemptIndex + 1
  /\ looping = TRUE
  /\ attempt \in 0..MaxAttemptIndex
  /\ lastError = NoError
  /\ delay = 0
  /\ log = <<>>
  /\ calls = NoCalls
  /\ NoTransfer
  /\ NoHandling
  /\ NoPassage

\* middleware.ts 45-47 and 69-71
ComputeBackoff ==
  /\ pc = "backoff_input"
  /\ \E k \in 0..(JitterSteps - 1) : delay' = BackoffDelay(attempt, k)
  /\ pc' = "backoff_computed"
  /\ UNCHANGED <<config, routing, bgError, upstream, edgeError, response,
                 maxRetries, looping, attempt, lastError, log, calls, transfer, handling, passage>>

NextBackoff == ComputeBackoff

SpecBackoff == InitBackoff /\ [][NextBackoff]_vars

(* ------------------------- response body ------------------------------ *)

\* Transform with the comparison made `>=`: a body of exactly maxSize bytes is cut
Transform_AtLimit(chunk) ==
  IF aborted
    THEN UNCHANGED <<totalBytes, aborted, abortedSets, forwarded, body>>
    ELSE /\ totalBytes' = totalBytes + chunk.byteLength
         /\ IF totalBytes' >= maxSize[1]
              THEN /\ aborted' = TRUE
                   /\ abortedSets' = abortedSets + 1
                   /\ body' = "errored"
                   /\ UNCHANGED forwarded
              ELSE /\ forwarded' = Append(forwarded, chunk)
                   /\ UNCHANGED <<aborted, abortedSets, body>>

\* createSizeLimitedStream's transform(chunk, controller), middleware.ts 88-118:
\* controller.error puts the body in its errored state, controller.enqueue forwards
Transform(chunk) ==
  IF aborted
    THEN UNCHANGED <<totalBytes, aborted, abortedSets, forwarded, body>>
    ELSE /\ totalBytes' = totalBytes + chunk.byteLength
         /\ IF totalBytes' > maxSize[1]
              THEN /\ aborted' = TRUE
                   /\ abortedSets' = abortedSets + 1
                   /\ body' = "errored"
                   /\ UNCHANGED forwarded
              ELSE /\ forwarded' = Append(forwarded, chunk)
                   /\ UNCHANGED <<aborted, abortedSets, body>>

\* BodyChunk issuing a new outbound attempt when the governor cuts the body
BodyChunk_RetriesOnOverflow(n) ==
  /\ pc = "done"
  /\ body \in {"open", "errored"}
  /\ Len(fed) < MaxChunks
  /\ fed' = Append(fed, Chunk(Len(fed) + 1, n))
  /\ IF maxSize # <<>>
       THEN Transform(Chunk(Len(fed) + 1, n))
       ELSE /\ forwarded' = Append(forwarded, Chunk(Len(fed) + 1, n))
            /\ UNCHANGED <<totalBytes, aborted, abortedSets, body>>
  /\ IF aborted' /\ ~aborted
       THEN pc' = "fetch" /\ calls' = Bump(calls, "attempts")
       ELSE UNCHANGED <<pc, calls>>
  /\ UNCHANGED <<config, routing, bgError, upstream, edgeError, response, retry,
                 edgeTimer, maxSize, handling, passage>>

\* the upstream body delivers its next chunk, of n bytes, after handleInEdge returned
\* the response: through the governor when one was piped in (gateway.ts 107-112),
\* straight to the caller otherwise.  The source may deliver further chunks after the
\* governor errored the body, which is what transform's test of `aborted` is for.
BodyChunk(n) ==
  /\ pc = "done"
  /\ body \in {"open", "errored"}
  /\ Len(fed) < MaxChunks
  /\ fed' = Append(fed, Chunk(Len(fed) + 1, n))
  /\ IF maxSize # <<>>
       THEN Transform(Chunk(Len(fed) + 1, n))
       ELSE /\ forwarded' = Append(forwarded, Chunk(Len(fed) + 1, n))
            /\ UNCHANGED <<totalBytes, aborted, abortedSets, body>>
  /\ UNCHANGED <<config, routing, bgError, upstream, edgeError, response, retry,
                 calls, pc, edgeTimer, maxSize, handling, passage>>

\* the upstream body ends: flush() only logs (middleware.ts 120-125), the body closes
BodyEnds ==
  /\ pc = "done"
  /\ body = "open"
  /\ body' = "closed"
  /\ UNCHANGED <<config, routing, bgError, upstream, edgeError, response, retry,
                 calls, pc, edgeTimer, governor, fed, forwarded, handling, passage>>

(* ---------------------- governor specification ------------------------ *)

\* createSizeLimitedStream on its own: Init draws maxSize, the actions feed it a body
InitGovernor ==
  /\ ENV = [ENABLE_RETRY |-> TRUE, ENABLE_FALLBACK |-> TRUE,
            DEFAULT_TIMEOUT |-> DEFAULT_TIMEOUT, ALLOWED_ORIGIN |-> "*"]
  /\ PROXIES = [a \in KnownAliases |-> NoProfile]
  /\ pc = "done"
  /\ req = NoRequest
  /\ service = ""
  /\ proxy = NoProfile
  /\ decision = NoDecision
  /\ bgError = NoError
  /\ upstream = Outcome(200, <<>>, NoError)
  /\ edgeError = NoError
  /\ response = Resp("stream", 200, "edge", "", "", TRUE)
  /\ maxRetries = 0
  /\ looping = FALSE
  /\ attempt = 0
  /\ lastError = NoError
  /\ delay = 0
  /\ log = <<>>
  /\ calls = NoCalls
  /\ edgeTimer = Timer("cleared", DEFAULT_TIMEOUT)
  /\ NoHandling
  /\ NoPassage
  /\ body = "open"
  /\ maxSize \in { <<n>> : n \in 0..MaxLimit }
  /\ totalBytes = 0
  /\ aborted = FALSE
  /\ abortedSets = 0
  /\ fed = <<>>
  /\ forwarded = <<>>

NextGovernor ==
  \/ \E n \in 0..MaxChunkBytes : BodyChunk(n)
  \/ BodyEnds

SpecGovernor == InitGovernor /\ [][NextGovernor]_vars

(* ---------------------- transfer specification ------------------------ *)

\* one request from arrival to the end of its response body, with handleInEdge's
\* timer and the body's chunks: small size limits so that bodies reach them, and
\* profile timeouts below, at and above the ceiling

TransferProfiles ==
  { Profile(mr, <<{"GET", "HEAD", "OPTIONS", "POST"}>>, <<>>, <<MaxLimit>>, t) :
      mr \in {<<0>>, <<1>>},
      t \in {<<>>, <<0>>, <<5000>>, <<OPENAI_TIMEOUT>>} }

\* the correlation headers a request may come with: none, X-Request-Id alone, and an
\* empty X-Request-Id with both other headers set
TransferIds ==
  { NoIds, Ids(<<"req-1">>, <<>>, <<>>), Ids(<<"">>, <<"corr-1">>, <<"trace-1">>) }

TransferRequests ==
  { Request("POST", <<"gateway", "openai", "v1", "chat", "completions">>,
            FALSE, FALSE, TRUE, "stream_true", <<>>) } \cup
  { WithIds(Request("POST", <<"gateway", "openai", "v1", "embeddings">>,
                    FALSE, FALSE, TRUE, "stream_other", <<>>), ids) : ids \in TransferIds }

InitTransfer ==
  /\ ENV \in [ENABLE_RETRY : {TRUE}, ENABLE_FALLBACK : {TRUE},
              DEFAULT_TIMEOUT : {DEFAULT_TIMEOUT, 30000},
              ALLOWED_ORIGIN : {"*"}]
  /\ PROXIES \in { [a \in KnownAliases |-> p] : p \in TransferProfiles }
  /\ pc = "idle"
  /\ req = NoRequest
  /\ service = ""
  /\ proxy = NoProfile
  /\ decision = NoDecision
  /\ bgError = NoError
  /\ upstream = NoOutcome
  /\ edgeError = NoError
  /\ response = NoResponse
  /\ maxRetries = 0
  /\ looping = FALSE
  /\ attempt = 0
  /\ lastError = NoError
  /\ delay = 0
  /\ log = <<>>
  /\ calls = NoCalls
  /\ NoTransfer
  /\ NoHandling
  /\ NoPassage

\* handleInEdge line 64: the timer callback runs controller.abort(); the signal is
\* aborted from here on
EdgeTimerFires ==
  /\ edgeTimer.state = "armed"
  /\ edgeTimer' = Fired(edgeTimer)
  /\ UNCHANGED <<config, routing, bgError, upstream, edgeError, response, retry,
                 calls, pc, governor, stream, handling, passage>>

\* the attempt in flight on an aborted signal rejects with the AbortError
FetchAborted ==
  /\ edgeTimer.state = "fired"
  /\ FetchThrows(AbortErr)

NextTransfer ==
  \/ \E r \in TransferRequests : Receive(r)
  \/ Decide
  \/ ForwardBodyBuffered
  \/ \E status \in {200, 504} : ForwardReturns(status)
  \/ \E e \in {NetErr} : ForwardThrows(e)
  \/ \E out \in UpstreamResponses(proxy) : FetchReturns(out)
  \/ \E e \in {NetErr} : FetchThrows(e)
  \/ EdgeTimerFires
  \/ FetchAborted
  \/ BackoffElapsed
  \/ \E n \in 0..MaxChunkBytes : BodyChunk(n)
  \/ BodyEnds

SpecTransfer == InitTransfer /\ [][NextTransfer]_vars

(* ----------------------- routing specification ------------------------ *)

\* shouldForwardToBackground on its own: Init draws the request and the alias it is
\* addressed to, Route computes the decision

RouteAliases == {"openai", "claude", "azure"}

\* what follows /gateway/<alias> in the pathname: a streaming path, a long-running
\* path, a path in neither set and a path that holds one of each
RoutePaths ==
  { <<"v1", "chat", "completions">>,
    <<"v1", "embeddings">>,
    <<"v1", "models">>,
    <<"v1", "files", "v1", "chat", "completions">> }

\* a GET or HEAD Request has no body
RouteRequests ==
  { r \in { Request(m, <<"gateway", a>> \o pn, qs, sse, jt, b, cl) :
              m \in {"GET", "HEAD", "OPTIONS", "POST", "PUT", "PATCH", "DELETE"},
              a \in RouteAliases,
              pn \in RoutePaths,
              qs \in BOOLEAN,
              sse \in BOOLEAN,
              jt \in BOOLEAN,
              b \in {"none", "stream_true", "stream_other", "not_json"},
              cl \in {<<>>, <<LARGE_BODY_THRESHOLD>>, <<LARGE_BODY_THRESHOLD + 1>>} } :
      r.method \in {"GET", "HEAD"} => r.body = "none" }

InitRoute ==
  /\ ENV = [ENABLE_RETRY |-> TRUE, ENABLE_FALLBACK |-> TRUE,
            DEFAULT_TIMEOUT |-> DEFAULT_TIMEOUT, ALLOWED_ORIGIN |-> "*"]
  /\ PROXIES = [a \in RouteAliases |-> NoProfile]
  /\ pc = "route_input"
  /\ req \in RouteRequests
  /\ service = req.pathname[2]
  /\ proxy = NoProfile
  /\ decision = NoDecision
  /\ bgError = NoError
  /\ upstream = NoOutcome
  /\ edgeError = NoError
  /\ response = NoResponse
  /\ maxRetries = 0
  /\ looping = FALSE
  /\ attempt = 0
  /\ lastError = NoError
  /\ delay = 0
  /\ log = <<>>
  /\ calls = NoCalls
  /\ NoTransfer
  /\ NoHandling
  /\ NoPassage

\* handler line 335: the routing decision for the request
Route ==
  /\ pc = "route_input"
  /\ decision' = shouldForwardToBackground(req, service)
  /\ pc' = "routed"
  /\ UNCHANGED <<config, req, service, proxy, bgError, upstream, edgeError, response,
                 retry, calls, transfer, handling, passage>>

NextRoute == Route

SpecRoute == InitRoute /\ [][NextRoute]_vars

(* ---------------------- classifying an error alone --------------------- *)

\* the most wordings one error message holds
MaxWords == 2

\* the wordings categorizeError looks for in the lower-cased message, and two it does
\* not look for
CategorizeWords ==
  { "timeout", "network", "fetch failed", "dns", "getaddrinfo", "connection refused",
    "econnrefused", "ssl", "tls", "certificate", "size", "413", "fetch", "internal" }

\* the errors handler's catch block may be given
ClassifyErrors ==
  { Err(name, words) :
      name \in {"Error", "TypeError", "AbortError"},
      words \in { w \in SUBSET CategorizeWords : Cardinality(w) <= MaxWords } }

InitClassify ==
  /\ ENV = [ENABLE_RETRY |-> TRUE, ENABLE_FALLBACK |-> TRUE,
            DEFAULT_TIMEOUT |-> DEFAULT_TIMEOUT, ALLOWED_ORIGIN |-> "*"]
  /\ PROXIES = [a \in KnownAliases |-> NoProfile]
  /\ pc = "caught"
  /\ req = NoRequest
  /\ service = ""
  /\ proxy = NoProfile
  /\ decision = NoDecision
  /\ bgError = NoError
  /\ upstream = NoOutcome
  /\ edgeError \in ClassifyErrors
  /\ response = NoResponse
  /\ maxRetries = 0
  /\ looping = FALSE
  /\ attempt = 0
  /\ lastError = NoError
  /\ delay = 0
  /\ log = <<>>
  /\ calls = NoCalls
  /\ NoTransfer
  /\ NoHandling
  /\ NoPassage

\* handler lines 351-367: the caught error is classified and answered
Classify ==
  /\ pc = "caught"
  /\ response' = HandlerCatch(edgeError)
  /\ pc' = "classified"
  /\ UNCHANGED <<config, req, service, proxy, decision, bgError, upstream, edgeError,
                 retry, calls, transfer, handling, passage>>

\* the same error caught and classified a second time
ClassifyAgain ==
  /\ pc = "classified"
  /\ response' = HandlerCatch(edgeError)
  /\ pc' = "classified_twice"
  /\ UNCHANGED <<config, req, service, proxy, decision, bgError, upstream, edgeError,
                 retry, calls, transfer, handling, passage>>

NextClassify == Classify \/ ClassifyAgain

SpecClassify == InitClassify /\ [][NextClassify]_vars

(* ------------------- building the forward headers alone ---------------- *)

\* the most headers one request carries
MaxHeaders == 3

\* header names a client may send, as the client wrote them
ClientHeaderNames ==
  { <<"cookie">>, <<"Cookie">>, <<"Host">>, <<"connection">>,
    <<"x", "forwarded", "for">>, <<"X", "forwardedby", "proxy">>,
    <<"x", "real", "ip">>, <<"x", "realm">>, <<"x", "my", "custom">>,
    <<"User", "Agent">>, <<"Authorization">>, <<"via">> }

\* header names a profile's defaultHeaders may define
DefaultHeaderNames ==
  { <<"Host">>, <<"Connection">>, <<"User", "Agent">>, <<"anthropic", "version">> }

HeaderRequests ==
  { WithHeaders(Request("GET", <<"gateway", "openai", "v1", "models">>,
                        FALSE, FALSE, FALSE, "none", <<>>), names) :
      names \in { s \in SUBSET ClientHeaderNames : Cardinality(s) <= MaxHeaders } }

InitHeaders ==
  /\ ENV = [ENABLE_RETRY |-> TRUE, ENABLE_FALLBACK |-> TRUE,
            DEFAULT_TIMEOUT |-> DEFAULT_TIMEOUT, ALLOWED_ORIGIN |-> "*"]
  /\ PROXIES = [a \in KnownAliases |-> NoProfile]
  /\ pc = "edge_input"
  /\ req \in HeaderRequests
  /\ service = "openai"
  /\ proxy \in { WithDefaultHeaders(NoProfile, names) : names \in SUBSET DefaultHeaderNames }
  /\ decision = NoDecision
  /\ bgError = NoError
  /\ upstream = NoOutcome
  /\ edgeError = NoError
  /\ response = NoResponse
  /\ maxRetries = 0
  /\ looping = FALSE
  /\ attempt = 0
  /\ lastError = NoError
  /\ delay = 0
  /\ log = <<>>
  /\ calls = NoCalls
  /\ NoTransfer
  /\ NoHandling
  /\ NoPassage

\* handleInEdge line 51: the outbound headers are built from the request's and the
\* profile's
BuildForwardHeaders ==
  /\ pc = "edge_input"
  /\ forwardHeaders' = buildForwardHeaders(req.headers, proxy)
  /\ pc' = "headers_built"
  /\ UNCHANGED <<config, req, service, proxy, decision, bgError, upstream, edgeError,
                 response, retry, calls, transfer, forwardTimer, reqId, background,
                 passage>>

NextHeaders == BuildForwardHeaders

SpecHeaders == InitHeaders /\ [][NextHeaders]_vars

(* ------------------------ loading the registry ------------------------ *)

\* the most items an array of the override document holds
MaxItems == 2

\* a JavaScript value as JSON.parse gives it.  kind is what the code can tell apart
\* ("null", "number", "boolean", "string", "array", "object"); text is a number's or
\* boolean's literal; items are an array's elements or a string's pieces; fields are
\* an object's own properties
JsValue(kind, text, items, fields) ==
  [kind |-> kind, text |-> text, items |-> items, fields |-> fields]

JNull == JsValue("null", "", <<>>, <<>>)
JNum(text) == JsValue("number", text, <<>>, <<>>)
JBool(text) == JsValue("boolean", text, <<>>, <<>>)
JStr(pieces) == JsValue("string", "", pieces, <<>>)
JArr(items) == JsValue("array", "", items, <<>>)
JObj(fields) == JsValue("object", "", <<>>, fields)

\* the property name of an array's or a string's i-th element (i from 1)
IndexKey(i) ==
  CASE i = 1 -> "0"
    [] i = 2 -> "1"
    [] i = 3 -> "2"
    [] OTHER -> "3"

\* typeof value === 'object' && value !== null
IsObjectValue(v) == v.kind \in {"object", "array"}

\* the own enumerable properties of a value, key -> value: what Object.entries lists
\* and what object spread copies
OwnProperties(v) ==
  CASE v.kind = "object" -> v.fields
    [] v.kind \in {"array", "string"} ->
         [k \in { IndexKey(i) : i \in 1..Len(v.items) } |->
            LET i == CHOOSE j \in 1..Len(v.items) : IndexKey(j) = k
            IN  IF v.kind = "array" THEN v.items[i] ELSE JStr(<<v.items[i]>>)]
    [] OTHER -> <<>>

\* { ...a, ...b } on property maps
SpreadOver(a, b) ==
  [k \in DOMAIN a \cup DOMAIN b |-> IF k \in DOMAIN b THEN b[k] ELSE a[k]]

\* config.ts BUILTIN_PROXIES, two of its entries as their object literals
BUILTIN_PROXIES ==
  [a \in {"openai", "httpbin"} |->
     IF a = "openai"
       THEN [f \in {"host", "retryable", "timeout", "maxResponseSize"} |->
               CASE f = "host" -> JStr(<<"api", "openai", "com">>)
                 [] f = "retryable" -> JBool("true")
                 [] f = "timeout" -> JNum("120000")
                 [] OTHER -> JNum("10485760")]
       ELSE [f \in {"host", "retryable"} |->
               IF f = "host" THEN JStr(<<"httpbin", "org">>) ELSE JBool("true")]]

\* process.env.PROXY_CONFIG: not set (<<>>), or a text.  A text is empty, or does not
\* parse, or is the text of a JSON value
NoText == <<>>
EmptyText == [parses |-> FALSE, empty |-> TRUE, value |-> JNull]
BadText == [parses |-> FALSE, empty |-> FALSE, value |-> JNull]
JsonText(v) == [parses |-> TRUE, empty |-> FALSE, value |-> v]

\* JSON.parse: the value, or a SyntaxError
JSONparse(text) ==
  IF text.parses THEN [threw |-> FALSE, value |-> text.value]
  ELSE [threw |-> TRUE, value |-> JNull]

\* config.ts loadProxyConfig
loadProxyConfig(customConfig) ==
  IF customConfig = NoText \/ customConfig.empty THEN BUILTIN_PROXIES
  ELSE LET parsed == JSONparse(customConfig)
       IN  IF parsed.threw THEN BUILTIN_PROXIES
           \* Object.entries(null) throws a TypeError
           ELSE IF parsed.value.kind = "null" THEN BUILTIN_PROXIES
           ELSE LET entries == OwnProperties(parsed.value)
                    taken == { k \in DOMAIN entries : IsObjectValue(entries[k]) }
                IN  [k \in DOMAIN BUILTIN_PROXIES \cup taken |->
                       IF k \in taken
                         THEN SpreadOver(IF k \in DOMAIN BUILTIN_PROXIES
                                           THEN BUILTIN_PROXIES[k] ELSE <<>>,
                                         OwnProperties(entries[k]))
                         ELSE BUILTIN_PROXIES[k]]

\* the values an element of the document may be
ConfigValues ==
  { JNull, JNum("5"), JStr(<<"a", "b">>), JArr(<<JNum("5")>>),
    JObj([f \in {"host"} |-> JStr(<<"h", "example">>)]),
    JObj([f \in {"timeout"} |-> JNum("5")]) }

ConfigArrays ==
  { JArr(items) : items \in UNION { [1..n -> ConfigValues] : n \in 0..MaxItems } }

ConfigObjects ==
  { JObj(fields) : fields \in UNION { [keys -> ConfigValues] : keys \in SUBSET {"openai", "mine"} } }

\* the override documents
ConfigTexts ==
  { NoText, EmptyText, BadText } \cup
  { JsonText(v) : v \in { JNull, JNum("42"), JBool("true"), JStr(<<"a", "b">>) }
                         \cup ConfigArrays \cup ConfigObjects }

InitConfig ==
  /\ ENV \in { [ENABLE_RETRY |-> TRUE, ENABLE_FALLBACK |-> TRUE,
                DEFAULT_TIMEOUT |-> DEFAULT_TIMEOUT, ALLOWED_ORIGIN |-> "*",
                PROXY_CONFIG |-> text] : text \in ConfigTexts }
  /\ PROXIES = <<>>
  /\ pc = "module_load"
  /\ req = NoRequest
  /\ service = ""
  /\ proxy = NoProfile
  /\ decision = NoDecision
  /\ bgError = NoError
  /\ upstream = NoOutcome
  /\ edgeError = NoError
  /\ response = NoResponse
  /\ maxRetries = 0
  /\ looping = FALSE
  /\ attempt = 0
  /\ lastError = NoError
  /\ delay = 0
  /\ log = <<>>
  /\ calls = NoCalls
  /\ NoTransfer
  /\ NoHandling
  /\ NoPassage

\* gateway.ts line 36: const PROXIES = loadProxyConfig()
LoadProxyConfig ==
  /\ pc = "module_load"
  /\ PROXIES' = loadProxyConfig(ENV.PROXY_CONFIG)
  /\ pc' = "idle"
  /\ UNCHANGED <<ENV, routing, bgError, upstream, edgeError, response, retry, calls,
                 transfer, handling, passage>>

NextConfig == LoadProxyConfig

SpecConfig == InitConfig /\ [][NextConfig]_vars

(* ------------------ body, paths and headers on both paths -------------- *)

\* one profile with a host that is a URL host and one with a host that is not, no
\* retries
PassageProfiles ==
  { WithHost(Profile(<<0>>, <<>>, <<>>, <<>>, <<>>), host) :
      host \in {"api.openai.com", "bad host"} }

\* pathnames with and without the /gateway prefix: a streaming path, a long-running
\* path, a path that is both, a path with an escaped character, and a path that has
\* a gateway segment after the alias
PassagePathnames ==
  { <<"gateway", "openai", "v1", "chat", "completions">>,
    <<"gateway", "openai", "v1", "embeddings">>,
    <<"gateway", "openai", "v1", "files", "v1", "chat", "completions">>,
    <<"gateway", "openai", "v1", "files", "a%20b">>,
    <<"openai", "gateway", "v1", "embeddings">> }

PassageHeaders ==
  { {}, { <<"Cookie">>, <<"x", "my", "custom">>, <<"x", "forwarded", "for">> } }

PassageRequests ==
  { WithHeaders(Request("POST", pn, FALSE, FALSE, jt, b, <<>>), h) :
      pn \in PassagePathnames,
      jt \in BOOLEAN,
      b \in {"stream_true", "stream_other", "not_json"},
      h \in PassageHeaders } \cup
  { WithHeaders(Request("GET", pn, FALSE, FALSE, FALSE, "none", <<>>), h) :
      pn \in PassagePathnames,
      h \in PassageHeaders }

InitPassage ==
  /\ ENV \in [ENABLE_RETRY : {TRUE}, ENABLE_FALLBACK : BOOLEAN,
              DEFAULT_TIMEOUT : {DEFAULT_TIMEOUT}, ALLOWED_ORIGIN : {"*"}]
  /\ PROXIES \in { [a \in KnownAliases |-> p] : p \in PassageProfiles }
  /\ pc = "idle"
  /\ req = NoRequest
  /\ service = ""
  /\ proxy = NoProfile
  /\ decision = NoDecision
  /\ bgError = NoError
  /\ upstream = NoOutcome
  /\ edgeError = NoError
  /\ response = NoResponse
  /\ maxRetries = 0
  /\ looping = FALSE
  /\ attempt = 0
  /\ lastError = NoError
  /\ delay = 0
  /\ log = <<>>
  /\ calls = NoCalls
  /\ NoTransfer
  /\ NoHandling
  /\ NoPassage

NextPassage ==
  \/ \E r \in PassageRequests : Receive(r)
  \/ Decide
  \/ ForwardBodyBuffered
  \/ ForwardBodyThrows
  \/ \E status \in {200, 504} : ForwardReturns(status)
  \/ \E e \in ForwardErrors : ForwardThrows(e)
  \/ \E out \in {Outcome(200, <<>>, NoError), Outcome(404, <<>>, NoError)} : FetchReturns(out)
  \/ \E e \in {NetErr} : FetchThrows(e)

SpecPassage == InitPassage /\ [][NextPassage]_vars

(* -------------------- requests handled side by side ------------------- *)

\* two requests in flight in one isolate
TaskIds == {"A", "B"}

\* the locals of one request's handling: handleInEdge's timer (gateway.ts 62-63),
\* fetchWithRetry's attempt (middleware.ts 26), createSizeLimitedStream's totalBytes
\* and aborted (middleware.ts 85-86), and where the handling stands
Locals(phase, timer, att, bytes, abortedFlag) ==
  [phase |-> phase, timer |-> timer, attempt |-> att, totalBytes |-> bytes,
   aborted |-> abortedFlag]

NoLocals == Locals("idle", NoTimer, 0, 0, FALSE)

\* the locals declared at module level, one set for every request
LocalsOf_ModuleLevel(r) == "A"

\* whose locals the handling of request r reads and writes: each call of handleInEdge,
\* fetchWithRetry and createSizeLimitedStream declares its own with const / let
LocalsOf(r) == r

\* the profile both requests are addressed to
TaskProfile == Profile(<<1>>, <<{"GET", "HEAD", "OPTIONS", "POST"}>>, <<>>, <<MaxLimit>>, <<>>)

InitTasks ==
  /\ ENV = [ENABLE_RETRY |-> TRUE, ENABLE_FALLBACK |-> TRUE,
            DEFAULT_TIMEOUT |-> DEFAULT_TIMEOUT, ALLOWED_ORIGIN |-> "*"]
  /\ PROXIES = [a \in KnownAliases |-> TaskProfile]
  /\ pc = "idle"
  /\ req = NoRequest
  /\ service = ""
  /\ proxy = NoProfile
  /\ decision = NoDecision
  /\ bgError = NoError
  /\ upstream = NoOutcome
  /\ edgeError = NoError
  /\ response = NoResponse
  /\ maxRetries = 0
  /\ looping = FALSE
  /\ attempt = 0
  /\ lastError = NoError
  /\ delay = 0
  /\ log = <<>>
  /\ calls = NoCalls
  /\ NoTransfer
  /\ NoHandling
  /\ reqBody = NoBody
  /\ userPath = NoUserPath
  /\ backgroundHeaders = <<>>
  /\ tasks = [r \in TaskIds |-> NoLocals]

\* what a step of one request leaves alone
TaskFrame ==
  UNCHANGED <<config, pc, routing, bgError, upstream, edgeError, response, retry, calls,
              transfer, handling, reqBody, userPath, backgroundHeaders>>

\* handler and handleInEdge up to the first attempt: the profile is read from the
\* registry, the timer is armed, the loop starts at attempt 0
TaskStarts(r) ==
  /\ tasks[LocalsOf(r)].phase = "idle"
  /\ tasks' = [tasks EXCEPT ![LocalsOf(r)] =
                 Locals("fetch", Timer("armed", EdgeTimeout(PROXIES["openai"], ENV.DEFAULT_TIMEOUT)),
                        0, 0, FALSE)]
  /\ TaskFrame

\* an attempt fails retryably with attempts remaining: attempt++
TaskRetries(r) ==
  /\ tasks[LocalsOf(r)].phase = "fetch"
  /\ tasks[LocalsOf(r)].timer.state = "armed"
  /\ tasks[LocalsOf(r)].attempt < EffectiveMaxRetries(PROXIES["openai"], ENV.ENABLE_RETRY)
  /\ tasks' = [tasks EXCEPT ![LocalsOf(r)].attempt = NextAttempt(@)]
  /\ TaskFrame

\* the timer fires: controller.abort() ends the attempt in flight and the request
TaskTimerFires(r) ==
  /\ tasks[LocalsOf(r)].phase = "fetch"
  /\ tasks[LocalsOf(r)].timer.state = "armed"
  /\ tasks' = [tasks EXCEPT ![LocalsOf(r)].timer = clearTimeout(Fired(@)),
                            ![LocalsOf(r)].phase = "done"]
  /\ TaskFrame

\* the attempt answers: the timer is cleared and the body flows through a governor
TaskResponds(r) ==
  /\ tasks[LocalsOf(r)].phase = "fetch"
  /\ tasks[LocalsOf(r)].timer.state = "armed"
  /\ tasks' = [tasks EXCEPT ![LocalsOf(r)].timer = clearTimeout(@),
                            ![LocalsOf(r)].phase = "body"]
  /\ TaskFrame

\* createSizeLimitedStream's transform on a chunk of n bytes, on the locals l
TaskTransform(l, n) ==
  IF l.aborted THEN l
  ELSE IF l.totalBytes + n > MaxSize(PROXIES["openai"])
    THEN [l EXCEPT !.totalBytes = @ + n, !.aborted = TRUE]
  ELSE [l EXCEPT !.totalBytes = @ + n]

\* the upstream delivers a chunk of n bytes of request r's body
TaskChunk(r, n) ==
  /\ tasks[LocalsOf(r)].phase = "body"
  /\ ~tasks[LocalsOf(r)].aborted
  /\ tasks' = [tasks EXCEPT ![LocalsOf(r)] = TaskTransform(@, n)]
  /\ TaskFrame

\* request r's body ends or was cut
TaskEnds(r) ==
  /\ tasks[LocalsOf(r)].phase = "body"
  /\ tasks' = [tasks EXCEPT ![LocalsOf(r)].phase = "done"]
  /\ TaskFrame

\* one step of the handling of request r
TaskStep(r) ==
  \/ TaskStarts(r)
  \/ TaskRetries(r)
  \/ TaskTimerFires(r)
  \/ TaskResponds(r)
  \/ \E n \in 1..MaxChunkBytes : TaskChunk(r, n)
  \/ TaskEnds(r)

NextTasks == \E r \in TaskIds : TaskStep(r)

SpecTasks == InitTasks /\ [][NextTasks]_vars

(* ------------------------------- claims ------------------------------- *)

LongPathErrorMessages == {"Background processing timeout", "Background processing failed"}

GenericFailure == createErrorResponse(500, "Background processing failed", "api_error")

LongPathFailed == pc = "done" /\ bgError # NoError

\* C1: whenever the long-path invocation fails for any reason (its deadline firing, a
\* network error, an internal failure) and the profile permits fallback and fallback is
\* enabled process-wide, the request is re-run through handleInEdge and the long-path
\* failure is not what the caller receives.
C1_AnyFailureFallsBack ==
  (LongPathFailed /\ FallbackPermitted(proxy, ENV.ENABLE_FALLBACK))
    => (calls.edges = 1 /\ response.message \notin LongPathErrorMessages)

\* C2: when the forwarding call raises a network error, the profile has
\* allowFallback = true and ENABLE_FALLBACK is on, the fast path runs once for the
\* request and the caller receives what that run produced: the upstream's status as a
\* streamed response tagged edge when the run obtained a response within the size
\* limit, and never a response made from the long-path failure.
C2_NetworkErrorFallsBack ==
  (pc = "done" /\ bgError = NetErr /\ proxy.allowFallback = <<TRUE>> /\ ENV.ENABLE_FALLBACK)
    => /\ calls.edges = 1
       /\ calls.forwards = 1
       /\ response.message \notin LongPathErrorMessages
       /\ response.mode # "background"
       /\ (edgeError = NoError) # (upstream = NoOutcome)
       /\ (upstream # NoOutcome
             /\ (upstream.contentLength = <<>> \/ upstream.contentLength[1] <= MaxSize(proxy)))
            => /\ response.kind = "stream"
               /\ response.status = upstream.status
               /\ response.mode = "edge"

C2_Witness ==
  /\ pc = "done"
  /\ bgError = NetErr
  /\ proxy.allowFallback = <<TRUE>>
  /\ ENV.ENABLE_FALLBACK
  /\ calls.edges = 1
  /\ response.kind = "stream"
  /\ response.status = 200
  /\ response.mode = "edge"

\* C3: when the long-path invocation fails and fallback is disallowed (allowFallback
\* is false, or fallback is disabled process-wide), no fast-path outbound call is made
\* and the caller receives the generic upstream-failure error response.
C3_NoFallbackGenericError ==
  (LongPathFailed /\ ~FallbackPermitted(proxy, ENV.ENABLE_FALLBACK))
    => (calls.edges = 0 /\ calls.attempts = 0 /\ response = GenericFailure)

\* C4 as stated: when the long path fails, fallback is permitted and the fallback run
\* itself throws, the caller receives the generic upstream-failure error that is
\* surfaced when fallback is disallowed.
C4_FallbackFailureIsGeneric ==
  (LongPathFailed /\ FallbackPermitted(proxy, ENV.ENABLE_FALLBACK) /\ edgeError # NoError)
    => response = GenericFailure

\* C4 as amended: when the long path fails, fallback is permitted and the fallback run
\* itself throws, the caller receives the error response classified from the fast-path
\* error (504 TIMEOUT for an abort, 502 NETWORK for a failed fetch, 502 DNS for a
\* resolution failure), not the 500 "Background processing failed" response.
C4_FallbackFailureIsClassified ==
  (LongPathFailed /\ FallbackPermitted(proxy, ENV.ENABLE_FALLBACK) /\ edgeError # NoError)
    => /\ response.kind = "error"
       /\ response # GenericFailure
       /\ response.message \notin LongPathErrorMessages
       /\ edgeError = AbortErr => (response.status = 504 /\ response.type = "TIMEOUT")
       /\ edgeError = NetErr => (response.status = 502 /\ response.type = "NETWORK")
       /\ edgeError = DnsErr => (response.status = 502 /\ response.type = "DNS")

C4_Witness ==
  /\ LongPathFailed
  /\ FallbackPermitted(proxy, ENV.ENABLE_FALLBACK)
  /\ edgeError = NetErr
  /\ calls.edges = 1
  /\ response.status = 502

\* C5: for every request each dispatch stage runs at most once: one routing decision,
\* one long-path invocation with one forwarding call, one entry into the fast path
\* with one fetchWithRetry invocation; once the long path has failed it is never
\* re-entered, and more than one outbound attempt happens only inside the attempt
\* loop of that single fetchWithRetry invocation.
C5_StagesRunAtMostOnce ==
  /\ calls.decisions <= 1
  /\ calls.forwards <= 1
  /\ calls.forwardFetches <= 1
  /\ calls.edges <= 1
  /\ calls.executors <= 1
  /\ bgError # NoError => pc \notin {"decide", "forward_body", "forward_fetch"}
  /\ calls.edges = 1 => pc \notin {"decide", "forward_body", "forward_fetch"}
  /\ calls.attempts > 1 => (calls.executors = 1 /\ looping)

C5_Witness ==
  /\ pc = "done"
  /\ bgError # NoError
  /\ calls.forwards = 1
  /\ calls.edges = 1
  /\ calls.attempts > 1

LastOutcome == log[Len(log)]

\* C6: in every retry sequence of fetchWithRetry, whatever mix of 5xx responses and
\* thrown errors the upstream produces, the outbound attempts never number more than
\* maxRetries + 1, and once every attempt and timer ends the invocation ends with a
\* response or an error.
C6_AttemptsBoundedAndTerminates ==
  /\ [](calls.attempts <= maxRetries + 1)
  /\ [](Len(log) <= calls.attempts)
  /\ (pc \in {"fetch", "backoff"}) ~> (pc = "done" /\ (upstream = NoOutcome) # (edgeError = NoError))

C6_Witness ==
  /\ pc = "done"
  /\ maxRetries >= 2
  /\ calls.attempts = maxRetries + 1
  /\ \E i \in 1..Len(log) : log[i].status >= 500
  /\ \E i \in 1..Len(log) : log[i].error # NoError

\* C7: a 4xx response is never retried: for any maxRetries and any method, when an
\* attempt answers with a status in 400..499 that attempt is the last one, no backoff
\* follows, and fetchWithRetry returns that response.
C7_ClientErrorNeverRetried ==
  \A i \in 1..Len(log) :
    log[i].status \in 400..499
      => /\ i = Len(log)
         /\ calls.attempts = i
         /\ pc = "done"
         /\ upstream = log[i]
         /\ edgeError = NoError
         /\ response.kind = "stream"
         /\ response.status = log[i].status

C7_Witness ==
  /\ looping
  /\ Len(log) >= 2
  /\ attempt < maxRetries
  /\ LastOutcome.status = 404
  /\ pc = "done"

\* the retry preconditions read off the configuration
RetryNotConfigured ==
  \/ ~ENV.ENABLE_RETRY
  \/ proxy.maxRetries # <<>> /\ proxy.maxRetries[1] <= 0
  \/ proxy.retryableMethods = <<>> /\ req.method \notin {"GET", "HEAD", "OPTIONS"}
  \/ proxy.retryableMethods # <<>> /\ req.method \notin proxy.retryableMethods[1]

\* C8: retries occur only if maxRetries > 0 and the method is in retryableMethods: when
\* maxRetries <= 0 (retry disabled process-wide included) or the method is not in
\* retryableMethods (GET/HEAD/OPTIONS when the profile declares none), exactly one
\* outbound attempt is issued whatever its outcome, and no backoff is taken.
C8_RetryOnlyWhenConfigured ==
  (calls.executors = 1 /\ RetryNotConfigured)
    => /\ calls.attempts = 1
       /\ calls.delays = 0
       /\ pc \in {"fetch", "done"}
       /\ Len(log) <= 1

C8_Witness ==
  /\ pc = "done"
  /\ ENV.ENABLE_RETRY
  /\ proxy.maxRetries = <<MaxRetriesBound>>
  /\ req.method = "DELETE"
  /\ Len(log) = 1
  /\ log[1].error = NetErr
  /\ calls.attempts = 1

\* the attempt loop ran all of its maxRetries + 1 attempts
Exhausted == pc = "done" /\ looping /\ Len(log) = maxRetries + 1

\* C9 as stated: on exhaustion of all maxRetries + 1 attempts fetchWithRetry throws: the
\* last thrown error, or, when the final attempt ended with a 5xx response, that status
\* wrapped as an error; it never returns a normal response.
C9_ExhaustionAlwaysThrows ==
  (Exhausted /\ (LastOutcome.error # NoError \/ LastOutcome.status >= 500))
    => /\ upstream = NoOutcome
       /\ LastOutcome.error # NoError => edgeError = LastOutcome.error
       /\ LastOutcome.status >= 500 => edgeError = ServerError(LastOutcome.status)

\* C9 as amended: on exhaustion of all maxRetries + 1 attempts, fetchWithRetry throws
\* the last thrown error when the final attempt threw; when the final attempt ended
\* with a 5xx response it returns that response as a normal result (the wrapped
\* "Server error" is never thrown), and the caller receives that 5xx status.
C9_ExhaustionThrowsOrReturnsLast5xx ==
  Exhausted
    => /\ LastOutcome.error # NoError
            => /\ edgeError = LastOutcome.error
               /\ upstream = NoOutcome
               /\ response.kind = "error"
       /\ LastOutcome.status >= 500
            => /\ edgeError = NoError
               /\ upstream = LastOutcome
               /\ response.kind = "stream"
               /\ response.status = LastOutcome.status

C9_Witness ==
  /\ Exhausted
  /\ maxRetries >= 2
  /\ log[1].error # NoError
  /\ LastOutcome.status = 503
  /\ response.status = 503

\* min(100 * 2^n, 5000)
NominalDelay(n) == IF 100 * Pow2(n) <= 5000 THEN 100 * Pow2(n) ELSE 5000

\* C10: for every attempt index n >= 0 and every jitter draw, the backoff delay
\* computed before the next attempt lies within [0.85, 1.15] x min(100 * 2^n, 5000) ms
\* and is never below 100 ms.
C10_BackoffDelayInBand ==
  pc = "backoff_computed"
    => /\ 100 * delay >= 85 * NominalDelay(attempt) * DelayScale
       /\ 100 * delay <= 115 * NominalDelay(attempt) * DelayScale
       /\ delay >= 100 * DelayScale

C10_Witness ==
  /\ pc = "backoff_computed"
  /\ attempt >= 6
  /\ NominalDelay(attempt) = 5000
  /\ delay < 5000 * DelayScale

(* ---- size-limited stream ---- *)

RECURSIVE Bytes(_)
\* the bytes held by a sequence of chunks
Bytes(chunks) ==
  IF chunks = <<>> THEN 0 ELSE Head(chunks).byteLength + Bytes(Tail(chunks))

\* the positions k at which the running total of the delivered body first exceeds the
\* limit (empty when it never does)
Overflows(chunks, limit) ==
  { k \in 1..Len(chunks) :
      /\ Bytes(SubSeq(chunks, 1, k)) > limit
      /\ \A j \in 1..(k - 1) : Bytes(SubSeq(chunks, 1, j)) <= limit }

\* C11: for every body passed through the governor with limit maxSize, where k is the
\* first chunk at which the cumulative byte count exceeds the limit: chunks 1..k-1 are
\* forwarded unchanged and in order, chunk k and the later ones are not forwarded, the
\* body is errored, `aborted` was set exactly once and stays set, the bytes forwarded
\* never exceed the limit, and a body that never exceeds it (one of exactly maxSize
\* bytes included) is forwarded whole with `aborted` never set
C11_GovernorCutsAtFirstOverflow ==
  maxSize # <<>> =>
    /\ Bytes(forwarded) <= maxSize[1]
    /\ \A k \in Overflows(fed, maxSize[1]) :
         /\ forwarded = SubSeq(fed, 1, k - 1)
         /\ aborted
         /\ abortedSets = 1
         /\ body = "errored"
    /\ Overflows(fed, maxSize[1]) = {} =>
         /\ forwarded = fed
         /\ ~aborted
         /\ abortedSets = 0
         /\ body # "errored"

\* the second chunk exceeded the limit, and a third one arrived after the cut
C11_Witness ==
  /\ maxSize # <<>>
  /\ aborted
  /\ Len(forwarded) = 1
  /\ Len(fed) = 3
  /\ Bytes(forwarded) = maxSize[1]

\* C12: on the fast path, when the upstream response declares a Content-Length above
\* the size limit (the profile's maxResponseSize, else the default), the caller gets a
\* 413 error response and no byte of the upstream body is forwarded; the governor is
\* piped in only when no length is declared
C12_DeclaredOversizeIs413 ==
  (pc = "done" /\ upstream # NoOutcome) =>
    /\ (/\ upstream.contentLength # <<>>
        /\ upstream.contentLength[1] > OrElseFalsy(proxy.maxResponseSize, MAX_RESPONSE_SIZE))
         => /\ response.kind = "error"
            /\ response.status = 413
            /\ body = "none"
            /\ fed = <<>>
            /\ forwarded = <<>>
    /\ maxSize # <<>> => upstream.contentLength = <<>>

\* the upstream declared a length one over the profile's limit and the caller got 413
C12_Witness ==
  /\ pc = "done"
  /\ upstream.contentLength = <<MaxLimit + 1>>
  /\ proxy.maxResponseSize = <<MaxLimit>>
  /\ response.status = 413

\* C13: once the body of a response has started to flow to the caller no outbound
\* attempt is issued any more for the request (no retry, no long-path call, no
\* fallback), and once the governor cut the body nothing more is forwarded: the bytes
\* already forwarded are followed by the error only
C13_NoAttemptOnceBodyFlows ==
  [][ body # "none" =>
        /\ calls' = calls
        /\ log' = log
        /\ pc' = "done"
        /\ aborted => (aborted' /\ forwarded' = forwarded /\ body' = "errored") ]_vars

\* a request that fell back from the long path and was retried once streamed a body
\* that the governor cut after forwarding some of it, and more chunks arrived
C13_Witness ==
  /\ aborted
  /\ forwarded # <<>>
  /\ Len(fed) > Len(forwarded) + 1
  /\ looping
  /\ calls.attempts = 2
  /\ calls.forwards = 1

(* ---- fast-path deadline ---- *)

\* C19: the fast path's timer is set to min(profile timeout or default timeout, 20000)
\* ms; once it has fired no attempt of the request succeeds (the attempt in flight is
\* rejected, no upstream response is handed on, no body flows) and the request ends
\* with the TIMEOUT error response, status 504
C19_EdgeDeadlineEndsInTimeout ==
  /\ edgeTimer.state # "unset" =>
       edgeTimer.ms =
         LET t == IF proxy.timeout = <<>> \/ proxy.timeout[1] = 0
                    THEN ENV.DEFAULT_TIMEOUT ELSE proxy.timeout[1]
         IN  IF t < EDGE_TIMEOUT_CEILING THEN t ELSE EDGE_TIMEOUT_CEILING
  /\ edgeTimer.state = "fired" =>
       /\ pc \in {"fetch", "backoff", "done"}
       /\ upstream = NoOutcome
       /\ body = "none"
       /\ pc = "done" =>
            /\ response.kind = "error"
            /\ response.status = 504
            /\ response.type = "TIMEOUT"
            /\ LastOutcome.error.name = "AbortError"

\* a profile timeout above the ceiling was cut to it; the timer fired while the
\* retried attempt was in flight and the request ended with 504
C19_Witness ==
  /\ proxy.timeout = <<OPENAI_TIMEOUT>>
  /\ edgeTimer = Timer("fired", EDGE_TIMEOUT_CEILING)
  /\ pc = "done"
  /\ Len(log) = 2
  /\ response.status = 504

EdgeMethods == {"GET", "HEAD", "OPTIONS"}

OnStreamingPath(r) == \E path \in STREAMING_PATHS : Includes(r.pathname, path)

OnLongRunningPath(r) == \E path \in LONG_RUNNING_PATHS : Includes(r.pathname, path)

\* the request carries `stream: true` in a body sent as JSON by POST to a streaming path
StreamBodySignal(r) ==
  OnStreamingPath(r) /\ r.method = "POST" /\ r.jsonType /\ r.body = "stream_true"

\* the request carries one of the streaming signals the code acts on
StreamingSignal(r) == r.queryStream \/ r.acceptSSE \/ StreamBodySignal(r)

\* C14: a GET, HEAD or OPTIONS request is decided fast-path (shouldForward false),
\* whatever its declared length, its path and the alias it is addressed to
C14_EdgeMethodsStayOnEdge ==
  (pc = "routed" /\ req.method \in EdgeMethods) => ~decision.shouldForward

\* a HEAD request to a long-running path with a declared length over the threshold
C14_Witness ==
  /\ pc = "routed"
  /\ req.method = "HEAD"
  /\ OnLongRunningPath(req)
  /\ req.contentLength = <<LARGE_BODY_THRESHOLD + 1>>
  /\ ~decision.shouldForward

\* C15 as stated: every request with a declared Content-Length above 1,048,576 and a
\* method outside GET/HEAD/OPTIONS is decided long-path
C15_LargeBodyIsLongPath ==
  (/\ pc = "routed"
   /\ req.method \notin EdgeMethods
   /\ req.contentLength # <<>>
   /\ req.contentLength[1] > 1048576)
    => decision.shouldForward

\* C15: a request with a method outside GET/HEAD/OPTIONS that carries no streaming
\* signal is decided long-path when its declared Content-Length is above 1,048,576;
\* a declared length of exactly 1,048,576 does not fire the size rule
C15_LargeNonStreamingBodyIsLongPath ==
  (/\ pc = "routed"
   /\ req.method \notin EdgeMethods
   /\ ~StreamingSignal(req)
   /\ req.contentLength # <<>>)
    => /\ req.contentLength[1] > 1048576 => decision.shouldForward
       /\ req.contentLength[1] = 1048576 =>
            /\ decision.reason # "Large request body"
            /\ ~OnLongRunningPath(req) => ~decision.shouldForward

\* a POST of more than the threshold to a path in neither set went long-path by size
C15_Witness ==
  /\ pc = "routed"
  /\ req.method = "POST"
  /\ ~OnLongRunningPath(req)
  /\ ~OnStreamingPath(req)
  /\ req.contentLength = <<LARGE_BODY_THRESHOLD + 1>>
  /\ decision.shouldForward
  /\ decision.reason = "Large request body"

\* C16 as stated: the streaming rule fires only for a path in the streaming set that
\* also carries a signal, so a POST to /v1/embeddings is long-path whatever its Accept
\* header and stream query
C16_StreamingNeedsStreamingPath ==
  pc = "routed" =>
    /\ decision.reason = "Streaming request" => (OnStreamingPath(req) /\ StreamingSignal(req))
    /\ (req.method = "POST" /\ OnLongRunningPath(req) /\ ~OnStreamingPath(req))
         => decision.shouldForward

\* C16: for a method outside GET/HEAD/OPTIONS the streaming rule fires exactly when
\* the query holds stream=true, or Accept holds text/event-stream (both whatever the
\* path), or the path is in the streaming set and a POST body sent as JSON holds
\* stream true; a POST to a long-running path outside the streaming set is long-path
\* exactly when it carries neither the query flag nor the Accept value
C16_StreamingBySignalOrPathBody ==
  (pc = "routed" /\ req.method \notin EdgeMethods) =>
    /\ decision.reason = "Streaming request" <=> StreamingSignal(req)
    /\ StreamingSignal(req) => ~decision.shouldForward
    /\ (req.method = "POST" /\ OnLongRunningPath(req) /\ ~OnStreamingPath(req))
         => (decision.shouldForward <=> (~req.queryStream /\ ~req.acceptSSE))

\* a POST to /v1/embeddings with Accept: text/event-stream was decided fast-path
C16_Witness ==
  /\ pc = "routed"
  /\ req.method = "POST"
  /\ req.pathname = <<"gateway", "openai", "v1", "embeddings">>
  /\ req.acceptSSE
  /\ ~req.queryStream
  /\ ~decision.shouldForward
  /\ decision.reason = "Streaming request"

\* C17 as stated: a POST to a streaming path whose body is {"stream": true} is decided
\* fast-path whatever its declared length and the other path rules
C17_StreamBodyIsFastPath ==
  (/\ pc = "routed"
   /\ req.method = "POST"
   /\ OnStreamingPath(req)
   /\ req.body = "stream_true")
    => ~decision.shouldForward

\* C17: a POST to a streaming path whose body is {"stream": true} and whose
\* Content-Type holds application/json is decided fast-path by the streaming rule,
\* whatever its declared length and the other path rules; sent without that
\* Content-Type and without another streaming signal it falls to the later rules, and
\* is long-path on a long-running path or with a declared length over the threshold
C17_JsonStreamBodyIsFastPath ==
  (/\ pc = "routed"
   /\ req.method = "POST"
   /\ OnStreamingPath(req)
   /\ req.body = "stream_true")
    => /\ req.jsonType =>
            (~decision.shouldForward /\ decision.reason = "Streaming request")
       /\ (~req.jsonType /\ ~req.queryStream /\ ~req.acceptSSE) =>
            (decision.shouldForward <=>
               \/ OnLongRunningPath(req)
               \/ (req.contentLength # <<>> /\ req.contentLength[1] > 1048576))

\* the body signal alone kept a POST of more than the threshold, to a path that is
\* also long-running, on the fast path
C17_Witness ==
  /\ pc = "routed"
  /\ req.method = "POST"
  /\ OnStreamingPath(req)
  /\ OnLongRunningPath(req)
  /\ req.body = "stream_true"
  /\ req.jsonType
  /\ ~req.queryStream
  /\ ~req.acceptSSE
  /\ req.contentLength = <<LARGE_BODY_THRESHOLD + 1>>
  /\ ~decision.shouldForward

\* C18: a request with a method outside GET/HEAD/OPTIONS that carries no streaming
\* signal and whose path is in the long-running set is decided long-path with an
\* estimated duration, whatever its declared length and the alias
C18_LongRunningPathIsLongPath ==
  (/\ pc = "routed"
   /\ req.method \notin EdgeMethods
   /\ ~StreamingSignal(req)
   /\ OnLongRunningPath(req))
    => /\ decision.shouldForward
       /\ decision.estimatedDuration = <<60000>>

\* a small PUT to /v1/embeddings of an alias other than openai went long-path
C18_Witness ==
  /\ pc = "routed"
  /\ req.method = "PUT"
  /\ service = "azure"
  /\ req.pathname = <<"gateway", "azure", "v1", "embeddings">>
  /\ req.contentLength = <<>>
  /\ decision.shouldForward
  /\ decision.estimatedDuration = <<60000>>

(* ---- long-path deadline ---- *)

\* C21: the forwarding call of the long path runs under its own deadline, which is
\* strictly larger than the deadline the fast path gives the same request, and the
\* long path's timer is no longer pending while a fallback's fast-path deadline is
\* armed
C21_ForwardDeadlineLargerThanEdge ==
  /\ forwardTimer.state # "unset" =>
       forwardTimer.ms > EdgeTimeout(proxy, ENV.DEFAULT_TIMEOUT)
  /\ edgeTimer.state = "armed" => forwardTimer.state # "armed"

(* ---- response headers and error bodies ---- *)

\* C22: every response the gateway returns carries a correlation-id header, a
\* processing-mode tag, a processing-time measurement and the CORS header with the
\* configured allowed origin
C22_EveryResponseHasFourHeaders ==
  pc = "done" =>
    /\ ResponseHeaders.requestId # <<>>
    /\ ResponseHeaders.mode # <<>>
    /\ ResponseHeaders.time
    /\ ResponseHeaders.allowOrigin = <<ENV.ALLOWED_ORIGIN>>

\* the identifier a request's correlation headers give: the first non-empty one of
\* X-Request-Id, X-Correlation-Id, X-Trace-Id, else the generated one
ExpectedId(r) ==
  LET present == { i \in 1..3 : <<r.ids.xRequestId, r.ids.xCorrelationId, r.ids.xTraceId>>[i]
                                  \notin {<<>>, <<"">>} }
  IN  IF present = {} THEN "uuid-gateway"
      ELSE <<r.ids.xRequestId, r.ids.xCorrelationId, r.ids.xTraceId>>
             [CHOOSE i \in present : \A j \in present : i <= j][1]

\* C23: from the start of handling on the request's correlation identifier is the one
\* its inbound correlation headers give (else the generated one), and that identifier
\* is echoed in X-Request-Id on the response of the fast path, of the long path, of a
\* fallback and on an error response; an error document the long-path executor sent
\* back carries it too
C23_OneCorrelationIdEchoed ==
  /\ pc # "idle" => reqId = ExpectedId(req)
  /\ (pc = "done" /\ response.kind \in {"stream", "relay", "error"}) =>
       ResponseHeaders.requestId = <<ExpectedId(req)>>
  /\ background.envelope # NoEnvelope =>
       background.envelope.request_id = <<ExpectedId(req)>>

\* a long-path response for a request whose X-Request-Id was empty and whose
\* X-Correlation-Id and X-Trace-Id were both set: the error document of the executor
\* and the relayed response carry the X-Correlation-Id value
C23_Witness ==
  /\ pc = "done"
  /\ response.kind = "relay"
  /\ req.ids = Ids(<<"">>, <<"corr-1">>, <<"trace-1">>)
  /\ background.envelope.request_id = <<"corr-1">>
  /\ ResponseHeaders.requestId = <<"corr-1">>

\* C24: every error response, those the long-path executor produced and the gateway
\* relayed included, has the envelope { error: { message, type, request_id }, status,
\* timestamp }, and its request_id is the request's correlation identifier
C24_OneErrorEnvelope ==
  (pc = "done" /\ ResponseEnvelope # NoEnvelope) =>
    /\ {"message", "type", "request_id"} \subseteq ResponseEnvelope.errorKeys
    /\ {"error", "status", "timestamp"} \subseteq ResponseEnvelope.topKeys
    /\ ResponseEnvelope.request_id = <<reqId>>

\* the path the gateway looks at: the pathname without its leading gateway segment
AfterPrefix(pathname) ==
  IF pathname # <<>> /\ Head(pathname) = "gateway"
    THEN SubSeq(pathname, 2, Len(pathname)) ELSE pathname

\* no routing decision, no upstream attempt, no long-path forwarding and no retry
NothingWentOut ==
  /\ decision = NoDecision
  /\ calls = NoCalls
  /\ log = <<>>
  /\ attempt = 0
  /\ edgeTimer.state = "unset"
  /\ forwardTimer.state = "unset"

HealthPathnames == { <<"gateway", "health">>, <<"health">> }

\* what holds of every answered OPTIONS request: answered at once with the CORS
\* headers, no provider looked up, no routing decision, nothing sent out
PreflightTouchesNothing ==
  /\ pc = "done"
  /\ ResponseHeaders.allowOrigin = <<ENV.ALLOWED_ORIGIN>>
  /\ service = ""
  /\ proxy = NoProfile
  /\ NothingWentOut

\* C26 as stated: an OPTIONS request is answered 204 with the CORS headers, without
\* provider lookup, routing decision or outbound call, whatever its path or alias
C26_PreflightIs204OnEveryPath ==
  (pc # "idle" /\ req.method = "OPTIONS") =>
    /\ PreflightTouchesNothing
    /\ response.status = 204

\* C26: an OPTIONS request is answered with the CORS headers, without provider lookup,
\* routing decision or outbound call, whatever its path or alias; the answer is 204,
\* except on the health endpoint's path, where it is the 200 health document
C26_PreflightIs204OffHealthPath ==
  (pc # "idle" /\ req.method = "OPTIONS") =>
    /\ PreflightTouchesNothing
    /\ response.status = IF req.pathname \in HealthPathnames THEN 200 ELSE 204
    /\ response.kind = IF req.pathname \in HealthPathnames THEN "health" ELSE "preflight"

\* an OPTIONS request naming an alias the registry does not have was answered 204
C26_Witness ==
  /\ pc = "done"
  /\ req.method = "OPTIONS"
  /\ req.pathname = <<"gateway", "nosuch", "v1", "models">>
  /\ response.status = 204
  /\ PreflightTouchesNothing

\* the rules of the error taxonomy in their order: the kind and status a rule gives,
\* the wordings and the error names it matches
TaxonomyRules ==
  << [type |-> "TIMEOUT", status |-> 504, names |-> {"AbortError"},
      words |-> {"timeout"}],
     [type |-> "NETWORK", status |-> 502, names |-> {},
      words |-> {"network", "fetch failed"}],
     [type |-> "DNS", status |-> 502, names |-> {},
      words |-> {"dns", "getaddrinfo"}],
     [type |-> "CONNECTION", status |-> 503, names |-> {},
      words |-> {"connection refused", "econnrefused"}],
     [type |-> "SSL", status |-> 502, names |-> {},
      words |-> {"ssl", "tls", "certificate"}],
     [type |-> "SIZE_LIMIT", status |-> 413, names |-> {},
      words |-> {"size", "413"}] >>

\* the rules an error matches
MatchingRules(e) ==
  { i \in DOMAIN TaxonomyRules :
      e.name \in TaxonomyRules[i].names \/ e.words \cap TaxonomyRules[i].words # {} }

\* C27: the answer to a caught error has the kind and status of the earliest rule of
\* the taxonomy the error matches, UNKNOWN and 500 when it matches none, and
\* classifying the same error a second time gives the same kind and status
C27_FirstMatchingRuleWins ==
  pc \in {"classified", "classified_twice"} =>
    IF MatchingRules(edgeError) = {}
      THEN response.type = "UNKNOWN" /\ response.status = 500
      ELSE LET first == CHOOSE i \in MatchingRules(edgeError) :
                          \A j \in MatchingRules(edgeError) : i <= j
           IN  /\ response.type = TaxonomyRules[first].type
               /\ response.status = TaxonomyRules[first].status

\* an error whose message matches the DNS rule and the NETWORK rule was classified
\* twice and is a NETWORK error, 502
C27_Witness ==
  /\ pc = "classified_twice"
  /\ edgeError.words = {"getaddrinfo", "fetch failed"}
  /\ response.type = "NETWORK"
  /\ response.status = 502

\* the inbound header was copied: the outbound set has it, with the client's value
Copied(h) ==
  /\ toLowerCase(h) \in DOMAIN forwardHeaders
  /\ forwardHeaders[toLowerCase(h)] = "client"

\* the lower-case name begins with x- but neither with x-forwarded nor with x-real
CustomName(lower) ==
  /\ Len(lower) >= 2
  /\ lower[1] = "x"
  /\ lower[2] \notin {"forwarded", "forwardedby", "real", "realm"}

\* C28: an inbound header is copied to the outbound set if and only if its lower-case
\* name is not in the deny-list and is in the allow-list or is a custom x- name (not
\* x-forwarded..., not x-real...); so cookie and x-forwarded-for are dropped and
\* x-my-custom is kept
C28_CopiedIffAllowed ==
  pc = "headers_built" =>
    /\ \A h \in req.headers :
         Copied(h) <=>
           /\ toLowerCase(h) \notin BLOCKED_REQUEST_HEADERS
           /\ toLowerCase(h) \in ALLOWED_REQUEST_HEADERS \/ CustomName(toLowerCase(h))
    /\ \A h \in req.headers \cap { <<"cookie">>, <<"Cookie">>, <<"x", "forwarded", "for">> } :
         ~Copied(h)
    /\ <<"x", "my", "custom">> \in req.headers => Copied(<<"x", "my", "custom">>)

\* a request with Cookie, x-forwarded-for and x-my-custom went through the sanitizer:
\* only x-my-custom is in the outbound set with the client's value
C28_Witness ==
  /\ pc = "headers_built"
  /\ req.headers = { <<"Cookie">>, <<"x", "forwarded", "for">>, <<"x", "my", "custom">> }
  /\ { n \in DOMAIN forwardHeaders : forwardHeaders[n] = "client" } = { <<"x", "my", "custom">> }

\* C29: whatever the inbound headers and the profile, the outbound set has neither
\* host nor connection, and it has a user-agent: the client's if the client sent one,
\* else the profile's if its defaultHeaders define one, else the synthesized default
C29_NoHostAlwaysUserAgent ==
  pc = "headers_built" =>
    /\ <<"host">> \notin DOMAIN forwardHeaders
    /\ <<"connection">> \notin DOMAIN forwardHeaders
    /\ <<"user", "agent">> \in DOMAIN forwardHeaders
    /\ forwardHeaders[<<"user", "agent">>] =
         IF <<"User", "Agent">> \in req.headers THEN "client"
         ELSE IF <<"User", "Agent">> \in proxy.defaultHeaders THEN "default"
         ELSE "synthesized"

\* a profile whose defaultHeaders define Host and Connection and no User-Agent, and a
\* client that sent Host and no User-Agent: the outbound set is the synthesized
\* user-agent alone
C29_Witness ==
  /\ pc = "headers_built"
  /\ proxy.defaultHeaders = { <<"Host">>, <<"Connection">> }
  /\ req.headers = { <<"Host">> }
  /\ DOMAIN forwardHeaders = { <<"user", "agent">> }
  /\ forwardHeaders[<<"user", "agent">>] = "synthesized"

\* the override document is an object of objects
ObjectOfObjects(text) ==
  /\ text # NoText
  /\ text.parses
  /\ text.value.kind = "object"
  /\ \A k \in DOMAIN text.value.fields : text.value.fields[k].kind = "object"

\* C30: loading never fails: whatever the override document, a registry with every
\* built-in alias is there afterwards, and for a document that is unparsable or is not
\* an object of objects that registry is exactly the built-in table
C30_MalformedDocumentIsIgnored ==
  pc = "idle" =>
    /\ DOMAIN BUILTIN_PROXIES \subseteq DOMAIN PROXIES
    /\ ~ObjectOfObjects(ENV.PROXY_CONFIG) => PROXIES = BUILTIN_PROXIES

\* the attempt of the retry loop that ends in this step threw an error whose message
\* has none of the retryable wordings
NonRetryableErrorThrown ==
  /\ pc = "fetch"
  /\ looping
  /\ Len(log') = Len(log) + 1
  /\ log'[Len(log')].error # NoError
  /\ log'[Len(log')].error.words \cap retryableErrors = {}

\* C31: when an attempt of the retry loop throws an error whose message matches no
\* retryable class, the loop stops in that step: no backoff delay is taken, no further
\* attempt is issued even if attempts remain, and the error thrown is the error the
\* caller gets
C31_NonRetryableErrorStopsAtOnce ==
  [][NonRetryableErrorThrown =>
       /\ pc' = "done"
       /\ calls' = calls
       /\ delay' = delay
       /\ attempt' = attempt
       /\ edgeError' = log'[Len(log')].error
       /\ response' = HandlerCatch(log'[Len(log')].error)]_vars

\* after one retry the second attempt threw a DNS failure with attempts remaining:
\* handling ended with that error, after one delay and two attempts
C31_Witness ==
  /\ pc = "done"
  /\ looping
  /\ attempt = 1
  /\ maxRetries > 1
  /\ Len(log) = 2
  /\ log[2].error = DnsErr
  /\ edgeError = DnsErr
  /\ calls.delays = 1
  /\ calls.attempts = 2

(* ---- request body, deadlines, user path and headers on both paths ---- *)

\* C32: the routing decision's look at the body reads a clone, never the request's
\* own body: until a stage executes the request the body is unread, whatever the
\* decision and whether or not the body was JSON, and the fast path (or the fallback
\* after a long-path failure) is handed the body unread, the long path buffers a clone
C32_PeekLeavesBodyUnread ==
  /\ reqBody.original # "peeked"
  /\ reqBody.clonesRead <= reqBody.clones
  /\ (pc \in {"decide", "forward_body", "forward_fetch"} /\ req.body # "none") =>
       reqBody.original = "unread"
  /\ (pc = "fetch" /\ req.body # "none" /\ req.method \notin {"GET", "HEAD"}) =>
       reqBody.original = "sent"

\* a JSON body on a streaming path was looked at by the decision, buffered by the long
\* path, and then handed unread to the fallback
C32_Witness ==
  /\ pc = "fetch"
  /\ calls.forwardFetches = 1
  /\ req.jsonType
  /\ req.body = "stream_other"
  /\ reqBody = BodyStream("sent", 2, 2)

\* C33: when handling is over, no deadline timer that handleInEdge or
\* forwardToBackground armed is still pending
C33_NoTimerPendingAtExit ==
  pc = "done" => (edgeTimer.state # "armed" /\ forwardTimer.state # "armed")

\* C36: the user path the fallback hands to handleInEdge and the user path the
\* Background function derives are the user path handler computes for the same URL
C36_OneUserPathOnEveryPath ==
  /\ userPath.edge # <<>> => userPath.edge = <<HandlerUserPath(req.pathname)>>
  /\ userPath.background # <<>> => userPath.background = <<HandlerUserPath(req.pathname)>>

\* C37: neither the headers handleInEdge sends upstream nor the headers the Background
\* function sends upstream have X-Original-IP or X-Service-Config, the headers
\* forwardToBackground attaches to the forwarding call
C37_NoGatewayHeaderGoesUpstream ==
  /\ forwardHeaders # <<>> =>
       DOMAIN forwardHeaders \cap { <<"x", "original", "ip">>, <<"x", "service", "config">> } = {}
  /\ backgroundHeaders # <<>> =>
       DOMAIN backgroundHeaders \cap { <<"x", "original", "ip">>, <<"x", "service", "config">> } = {}

(* ---- requests side by side ---- *)

C35_OneDelayBetweenAttempts ==
  calls.attempts > 0 =>
    /\ pc = "fetch" =>
         /\ calls.attempts = calls.delays + 1
         /\ Len(log) = calls.attempts - 1
    /\ pc = "backoff" =>
         /\ calls.delays = calls.attempts
         /\ Len(log) = calls.attempts
         /\ attempt < maxRetries
    /\ pc = "done" =>
         /\ calls.delays = calls.attempts - 1
         /\ Len(log) = calls.attempts

\* a sequence of three attempts with two delays between them has ended: the third,
\* final attempt answered 503 and that response was returned with no delay after it
C35_Witness ==
  /\ pc = "done"
  /\ looping
  /\ maxRetries = 2
  /\ attempt = 2
  /\ calls.attempts = 3
  /\ calls.delays = 2
  /\ log[3].status = 503
  /\ response.status = 503

====
